---- MODULE Spec2Model ----
(***************************************************************************)
(* Verification model of the AutoLens ray-tracing core:                    *)
(*   - autolens/lens/plane.py      (Plane, PlaneSlice, AbstractGriddedPlane)*)
(*   - src/analysis/ray_tracing.py (Tracer, MultiTracer, TracerGeometry,   *)
(*                                  Plane)                                 *)
(*   - autolens/fit/fit_point_source.py (fits of point-source datasets)    *)
(* Floating point values are modelled as exact rationals <<num, den>> in   *)
(* lowest terms with den > 0.  Optional values are sequences of length 0   *)
(* (None) or 1.                                                            *)
(***************************************************************************)
EXTENDS Integers, Sequences, FiniteSets, TLC

(***************************************************************************)
(* Bounds of the model.                                                    *)
(***************************************************************************)
MaxGalaxies == 3
MaxPix == 2
MaxPlanes == 3
MaxPositions == 3
MaxCalls == 2
MaxQueries == 3

\* the number of calls of fit on an Analysis
MaxFits == 4

\* the number of bits of the significand of a float
MantissaBits == 3

(***************************************************************************)
(* Rational arithmetic (stands for numpy float arithmetic).                *)
(***************************************************************************)
Abs(n) == IF n < 0 THEN -n ELSE n

RECURSIVE GCD(_, _)
GCD(a, b) == IF b = 0 THEN a ELSE GCD(b, a % b)

\* a zero denominator stands for numpy's inf (<<1, 0>>), -inf (<<-1, 0>>) and nan (<<0, 0>>)
Norm(n, d) ==
    IF d = 0 THEN <<IF n > 0 THEN 1 ELSE IF n < 0 THEN -1 ELSE 0, 0>>
    ELSE LET s == IF d < 0 THEN -1 ELSE 1
             g == GCD(Abs(n), Abs(d))
         IN  <<(s * n) \div g, (s * d) \div g>>

R(n) == <<n, 1>>
Zero == R(0)
One == R(1)
RAdd(a, b) == Norm(a[1] * b[2] + b[1] * a[2], a[2] * b[2])
RSub(a, b) == Norm(a[1] * b[2] - b[1] * a[2], a[2] * b[2])
RMul(a, b) == Norm(a[1] * b[1], a[2] * b[2])
RDiv(a, b) == Norm(a[1] * b[2], a[2] * b[1])
RAbs(a) == <<Abs(a[1]), a[2]>>

\* 2-vectors (y, x)
VAdd(u, v) == <<RAdd(u[1], v[1]), RAdd(u[2], v[2])>>
VSub(u, v) == <<RSub(u[1], v[1]), RSub(u[2], v[2])>>
VScale(s, v) == <<RMul(s, v[1]), RMul(s, v[2])>>
VZero == <<Zero, Zero>>

\* Python's int 0, the value sum() starts from: a scalar, not an array (it has no rows)
IntZero == <<>>

\* numpy elementwise operations on equally long arrays of 2-vectors / of scalars; the
\* scalar 0 is broadcast
ArrAdd(a, b) ==
    IF a = IntZero THEN b
    ELSE IF b = IntZero THEN a
    ELSE [i \in 1..Len(a) |-> VAdd(a[i], b[i])]
ArrSub(a, b) ==
    IF b = IntZero THEN a
    ELSE IF a = IntZero THEN [i \in 1..Len(b) |-> VSub(VZero, b[i])]
    ELSE [i \in 1..Len(a) |-> VSub(a[i], b[i])]
ArrScale(s, a) == [i \in 1..Len(a) |-> VScale(s, a[i])]
ScalAdd(a, b) ==
    IF a = IntZero THEN b
    ELSE IF b = IntZero THEN a
    ELSE [i \in 1..Len(a) |-> RAdd(a[i], b[i])]

RECURSIVE RSumSeq(_)
RSumSeq(s) == IF s = <<>> THEN Zero ELSE RAdd(s[1], RSumSeq(Tail(s)))

(***************************************************************************)
(* Optional values.                                                        *)
(***************************************************************************)
None == <<>>
Some(x) == <<x>>
IsNone(o) == o = <<>>
Get(o) == o[1]

(***************************************************************************)
(* Grid bundles (GridStack / CoordinateCollection): a record of the grid   *)
(* variants, each an array of (y, x) coordinates.  The sub grid holds      *)
(* sub_grid_size^2 coordinates per regular pixel.                          *)
(***************************************************************************)
Variants == {"regular", "sub", "blurring"}

\* grid_stack.apply_function(func) is func applied to every variant,
\*   [v \in Variants |-> func(stack[v])],
\* and grid_stack.map_function(func, other) is func applied variant by variant,
\*   [v \in Variants |-> func(stack[v], other[v])].

PixelCoords == << <<R(1), R(1)>>, <<R(1), R(-1)>>, <<R(-1), R(1)>>, <<R(-1), R(-1)>>,
                  <<R(0), R(0)>>, <<R(2), R(0)>> >>
BlurringCoords == << <<R(2), R(2)>>, <<R(0), R(2)>>, <<R(-2), R(0)>>, <<R(2), R(-2)>>,
                     <<R(3), R(0)>>, <<R(0), R(3)>> >>

\* the k-th sub coordinate of a pixel for sub grid size s: offsets along x
SubCoord(c, s, k) == <<c[1], RAdd(c[2], Norm(2 * k - (s * s + 1), 2 * s * s))>>

GridBundle(n, s) ==
    [regular  |-> [i \in 1..n |-> PixelCoords[i]],
     sub      |-> [j \in 1..(n * s * s) |->
                     SubCoord(PixelCoords[((j - 1) \div (s * s)) + 1], s, ((j - 1) % (s * s)) + 1)],
     blurring |-> [i \in 1..n |-> BlurringCoords[i]]]

\* the sub grid sizes the program uses by default (galaxy_data.py: 2, phase.py: 1)
SubGridSizes == {1, 2}

GridBundles == {GridBundle(n, s) : n \in 1..MaxPix, s \in SubGridSizes}

SubLength(stack) == Len(stack.sub) \div Len(stack.regular)

SameShape(a, b) == \A v \in Variants : Len(a[v]) = Len(b[v])

(***************************************************************************)
(* Galaxies.  redshift NoRedshift stands for Python's None; mass = 0 is a  *)
(* galaxy without mass profile, light = 0 one without light profile.       *)
(***************************************************************************)
NoRedshift == -1

Galaxy(z, m, l) ==
    [redshift |-> z, mass |-> m, light |-> l, pixelization |-> <<>>, regularization |-> <<>>]

\* a galaxy with a pixelization and a regularization, each given by its class name
PixelizedGalaxy(z, pixelization, regularization) ==
    [redshift |-> z, mass |-> 0, light |-> 0, pixelization |-> <<pixelization>>,
     regularization |-> <<regularization>>]

Galaxies == {Galaxy(1, 1, 0), Galaxy(1, 0, 1), Galaxy(2, 2, 1), Galaxy(3, 1, 2),
             Galaxy(NoRedshift, 1, 1)}

RECURSIVE SeqsUpTo(_, _)
SeqsUpTo(S, n) ==
    IF n = 0 THEN {<<>>}
    ELSE LET shorter == SeqsUpTo(S, n - 1)
         IN  shorter \cup {Append(s, x) : s \in {t \in shorter : Len(t) = n - 1}, x \in S}

GalaxyLists == SeqsUpTo(Galaxies, MaxGalaxies)

\* galaxy.deflections_from_grid(grid): a mass sheet of strength `mass`
galaxy_deflections_from_grid(galaxy, grid) ==
    [i \in 1..Len(grid) |-> VScale(R(galaxy.mass), grid[i])]

\* galaxy.intensity_from_grid(grid)
galaxy_intensity_from_grid(galaxy, grid) ==
    [i \in 1..Len(grid) |->
        RMul(R(galaxy.light), RAdd(One, RAdd(RAbs(grid[i][1]), RAbs(grid[i][2]))))]

ZeroVectors(n) == [i \in 1..n |-> VZero]

\* Python: sum(map(lambda galaxy: galaxy.deflections_from_grid(grid), galaxies)), which
\* starts from the int 0: the sum over an empty list is that int, not an array.
RECURSIVE SumDeflections(_, _)
SumDeflections(galaxies, grid) ==
    IF galaxies = <<>> THEN IntZero
    ELSE ArrAdd(SumDeflections(SubSeq(galaxies, 1, Len(galaxies) - 1), grid),
                galaxy_deflections_from_grid(galaxies[Len(galaxies)], grid))

RECURSIVE SumIntensities(_, _)
SumIntensities(galaxies, grid) ==
    IF galaxies = <<>> THEN IntZero
    ELSE ScalAdd(SumIntensities(SubSeq(galaxies, 1, Len(galaxies) - 1), grid),
                 galaxy_intensity_from_grid(galaxies[Len(galaxies)], grid))

(***************************************************************************)
(* Plane constructors.  A constructor call yields                          *)
(*   exc              the exception type raised ("none" when it returns)   *)
(*   msg              the exception message                                *)
(*   fields           the attributes assigned on self before it ended      *)
(*   plane            Some(object) when the constructor returned           *)
(*   deflection_calls number of calculate_deflections evaluations          *)
(***************************************************************************)
Raised(type, msg) ==
    [exc |-> type, msg |-> msg, fields |-> {}, plane |-> None, deflection_calls |-> 0]

\* mutant: the empty list yields the grid's rows instead of zeros
calculate_deflections_grid(galaxies, grid) ==
    IF galaxies # <<>> THEN SumDeflections(galaxies, grid)
    ELSE grid

\* autolens/lens/plane.py: calculate_deflections inside AbstractGriddedPlane.__init__
calculate_deflections(galaxies, grid) ==
    IF galaxies # <<>> THEN SumDeflections(galaxies, grid)
    ELSE ZeroVectors(Len(grid))

\* autolens/lens/plane.py: AbstractPlane.__init__ followed by AbstractGriddedPlane.__init__
AbstractGriddedPlane__init__(redshift, galaxies, grid_stack, border, compute_deflections, cosmology) ==
    [exc |-> "none", msg |-> "",
     fields |-> {"redshift", "galaxies", "cosmology", "grid_stack", "border", "deflection_stack"},
     plane |-> Some([redshift |-> redshift, galaxies |-> galaxies, cosmology |-> cosmology,
                     grid_stack |-> grid_stack, border |-> border,
                     deflection_stack |->
                        IF compute_deflections
                        THEN Some([v \in Variants |-> calculate_deflections(galaxies, grid_stack[v])])
                        ELSE None]),
     deflection_calls |-> IF compute_deflections THEN Cardinality(Variants) ELSE 0]

\* mutant: the check for an empty list is missing
Plane__init__unchecked(galaxies, grid_stack, border, compute_deflections, cosmology) ==
    IF galaxies = <<>>
    THEN AbstractGriddedPlane__init__(NoRedshift, galaxies, grid_stack, border,
                                      compute_deflections, cosmology)
    ELSE IF /\ \E i \in 1..Len(galaxies) : galaxies[i].redshift # NoRedshift
            /\ ~ \A i \in 1..Len(galaxies) : galaxies[1].redshift = galaxies[i].redshift
    THEN Raised("RayTracingException",
                "The galaxies supplied to A Plane have different redshifts or one galaxy does not have a redshift.")
    ELSE AbstractGriddedPlane__init__(galaxies[1].redshift, galaxies, grid_stack, border,
                                      compute_deflections, cosmology)

\* mutant: the redshifts are compared only when every galaxy has one
Plane__init__all(galaxies, grid_stack, border, compute_deflections, cosmology) ==
    IF galaxies = <<>>
    THEN Raised("RayTracingException", "An empty list of galaxies was supplied to Plane")
    ELSE IF /\ \A i \in 1..Len(galaxies) : galaxies[i].redshift # NoRedshift
            /\ ~ \A i \in 1..Len(galaxies) : galaxies[1].redshift = galaxies[i].redshift
    THEN Raised("RayTracingException",
                "The galaxies supplied to A Plane have different redshifts or one galaxy does not have a redshift.")
    ELSE AbstractGriddedPlane__init__(galaxies[1].redshift, galaxies, grid_stack, border,
                                      compute_deflections, cosmology)

\* autolens/lens/plane.py: Plane.__init__
Plane__init__(galaxies, grid_stack, border, compute_deflections, cosmology) ==
    IF galaxies = <<>>
    THEN Raised("RayTracingException", "An empty list of galaxies was supplied to Plane")
    ELSE IF /\ \E i \in 1..Len(galaxies) : galaxies[i].redshift # NoRedshift
            /\ ~ \A i \in 1..Len(galaxies) : galaxies[1].redshift = galaxies[i].redshift
    THEN Raised("RayTracingException",
                "The galaxies supplied to A Plane have different redshifts or one galaxy does not have a redshift.")
    ELSE AbstractGriddedPlane__init__(galaxies[1].redshift, galaxies, grid_stack, border,
                                      compute_deflections, cosmology)

\* autolens/lens/plane.py: PlaneSlice.__init__
PlaneSlice__init__(galaxies, grid_stack, redshift, border, compute_deflections, cosmology) ==
    AbstractGriddedPlane__init__(redshift, galaxies, grid_stack, border, compute_deflections,
                                 cosmology)

\* src/analysis/ray_tracing.py: Plane.__init__ (the attribute deflections only exists when
\* compute_deflections is true)
RT_Plane__init__(galaxies, coordinates_collection, compute_deflections) ==
    [exc |-> "none", msg |-> "",
     fields |-> {"galaxies", "coordinates_collection"}
                  \cup (IF compute_deflections THEN {"deflections"} ELSE {}),
     plane |-> Some([galaxies |-> galaxies, coordinates_collection |-> coordinates_collection,
                     deflections |->
                        IF compute_deflections
                        THEN Some([v \in Variants |->
                                  SumDeflections(galaxies, coordinates_collection[v])])
                        ELSE None]),
     deflection_calls |-> IF compute_deflections THEN Cardinality(Variants) ELSE 0]

\* mutant: the deflections are added
minus_plus(grid, deflections) == ArrAdd(grid, deflections)

\* autolens/lens/plane.py: minus inside trace_grid_stack_to_next_plane
minus(grid, deflections) == ArrSub(grid, deflections)

\* autolens/lens/plane.py: AbstractGriddedPlane.trace_grid_stack_to_next_plane
trace_grid_stack_to_next_plane(plane) ==
    [v \in Variants |-> minus(plane.grid_stack[v], Get(plane.deflection_stack)[v])]

\* src/analysis/ray_tracing.py: Plane.trace_to_next_plane
trace_to_next_plane(plane) ==
    [v \in Variants |-> ArrSub(plane.coordinates_collection[v], Get(plane.deflections)[v])]

(***************************************************************************)
(* Cosmology (astropy): a flat cosmology given by its comoving distances   *)
(* at the redshifts of the model; Planck15 is the program's default.       *)
(***************************************************************************)
Cosmologies == {[name |-> "Planck15", dc |-> <<3, 5, 6>>]}

\* cosmology.angular_diameter_distance(z)
angular_diameter_distance(cosmology, z) == Norm(cosmology.dc[z], 1 + z)

\* cosmology.angular_diameter_distance_z1z2(z1, z2)
angular_diameter_distance_z1z2(cosmology, z1, z2) ==
    Norm(cosmology.dc[z2] - cosmology.dc[z1], 1 + z2)

(***************************************************************************)
(* Python list indexing with a 0-based index that may be negative.         *)
(***************************************************************************)
PyIndexOK(list, i) == -Len(list) <= i /\ i < Len(list)
PyIndex(list, i) == IF i >= 0 THEN list[i + 1] ELSE list[Len(list) + i + 1]

(***************************************************************************)
(* src/analysis/ray_tracing.py: TracerGeometry                             *)
(***************************************************************************)
ang_to_earth(geometry, plane_i) ==
    angular_diameter_distance(geometry.cosmology, PyIndex(geometry.redshifts, plane_i))

ang_between_planes(geometry, plane_i, plane_j) ==
    angular_diameter_distance_z1z2(geometry.cosmology, PyIndex(geometry.redshifts, plane_i),
                                   PyIndex(geometry.redshifts, plane_j))

\* mutant: the distance to plane_i where the code takes the distance to plane_j
scaling_factor_earth_i(geometry, plane_i, plane_j) ==
    RDiv(RMul(ang_between_planes(geometry, plane_i, plane_j), geometry.ang_to_final_plane),
         RMul(ang_to_earth(geometry, plane_i),
              ang_between_planes(geometry, plane_i, geometry.final_plane)))

scaling_factor(geometry, plane_i, plane_j) ==
    RDiv(RMul(ang_between_planes(geometry, plane_i, plane_j), geometry.ang_to_final_plane),
         RMul(ang_to_earth(geometry, plane_j),
              ang_between_planes(geometry, plane_i, geometry.final_plane)))

\* TracerGeometry.__init__: [exc, geometry].  redshifts[-1] of an empty list is an
\* IndexError; the cosmology cannot take None as a redshift.
TracerGeometry__init__(redshifts, cosmology) ==
    LET final_plane == Len(redshifts) - 1
        partial == [cosmology |-> cosmology, redshifts |-> redshifts,
                    final_plane |-> final_plane, ang_to_final_plane |-> Zero]
    IN  IF ~ PyIndexOK(redshifts, final_plane)
        THEN [exc |-> "IndexError", geometry |-> None]
        ELSE IF PyIndex(redshifts, final_plane) = NoRedshift
        THEN [exc |-> "TypeError", geometry |-> None]
        ELSE [exc |-> "none",
              geometry |-> Some([partial EXCEPT !.ang_to_final_plane =
                                                    ang_to_earth(partial, final_plane)])]

(***************************************************************************)
(* src/analysis/ray_tracing.py: calls of the methods of a TracerGeometry.  *)
(* A call yields [exc, value]: the exception type it ended with ("none"    *)
(* when it returned) and Some(returned value).                             *)
(***************************************************************************)
Returned(value) == [exc |-> "none", value |-> Some(value)]
Failed(type) == [exc |-> type, value |-> None]

\* constants.c ** 2 / (4 pi G) in kpc units
constant_kpc == R(2)

\* cosmology.arcsec_per_kpc_proper(z): inversely proportional to the angular diameter
\* distance
arcsec_per_kpc_proper(cosmology, z) == RDiv(R(4), angular_diameter_distance(cosmology, z))

arcsec_per_kpc(geometry, plane_i) ==
    arcsec_per_kpc_proper(geometry.cosmology, PyIndex(geometry.redshifts, plane_i))

kpc_per_arcsec(geometry, plane_i) == RDiv(One, arcsec_per_kpc(geometry, plane_i))

critical_density_kpc(geometry, plane_i, plane_j) ==
    RDiv(RMul(constant_kpc, ang_to_earth(geometry, plane_j)),
         RMul(ang_between_planes(geometry, plane_i, plane_j), ang_to_earth(geometry, plane_i)))

critical_density_arcsec(geometry, plane_i, plane_j) ==
    RMul(critical_density_kpc(geometry, plane_i, plane_j),
         RMul(kpc_per_arcsec(geometry, plane_i), kpc_per_arcsec(geometry, plane_i)))

\* one cosmology call whose arguments are redshifts[k] for the indices k: indexing fails
\* with IndexError, the cosmology cannot take None
LookupExc(redshifts, indices) ==
    IF \E k \in 1..Len(indices) : ~ PyIndexOK(redshifts, indices[k]) THEN "IndexError"
    ELSE IF \E k \in 1..Len(indices) : PyIndex(redshifts, indices[k]) = NoRedshift
    THEN "TypeError"
    ELSE "none"

\* the first exception of a sequence of cosmology calls
RECURSIVE FirstExc(_, _)
FirstExc(redshifts, lookups) ==
    IF lookups = <<>> THEN "none"
    ELSE IF LookupExc(redshifts, Head(lookups)) # "none"
    THEN LookupExc(redshifts, Head(lookups))
    ELSE FirstExc(redshifts, Tail(lookups))

GeometryMethods == {"ang_to_earth", "ang_between_planes", "critical_density_kpc",
                    "critical_density_arcsec", "scaling_factor"}

\* the cosmology calls a method makes, in evaluation order
Lookups(geometry, method, plane_i, plane_j) ==
    CASE method = "ang_to_earth" -> << <<plane_i>> >>
      [] method = "ang_between_planes" -> << <<plane_i, plane_j>> >>
      [] method = "critical_density_kpc" ->
            << <<plane_j>>, <<plane_i, plane_j>>, <<plane_i>> >>
      [] method = "critical_density_arcsec" ->
            << <<plane_j>>, <<plane_i, plane_j>>, <<plane_i>>, <<plane_i>> >>
      [] method = "scaling_factor" ->
            << <<plane_i, plane_j>>, <<plane_j>>, <<plane_i, geometry.final_plane>> >>

\* the lookups of a call that ask the cosmology for an angular diameter distance: all
\* but the arcsec_per_kpc_proper lookup that ends critical_density_arcsec
DistanceLookups(geometry, method, plane_i, plane_j) ==
    LET lookups == Lookups(geometry, method, plane_i, plane_j)
    IN  IF method = "critical_density_arcsec" THEN SubSeq(lookups, 1, 3) ELSE lookups

\* the lookups that reach the cosmology: those before the first one that fails
RECURSIVE Consulted(_, _)
Consulted(redshifts, lookups) ==
    IF lookups = <<>> THEN <<>>
    ELSE IF LookupExc(redshifts, Head(lookups)) # "none" THEN <<>>
    ELSE <<Head(lookups)>> \o Consulted(redshifts, Tail(lookups))

GeometryCall(geometry, method, plane_i, plane_j) ==
    LET e == FirstExc(geometry.redshifts, Lookups(geometry, method, plane_i, plane_j))
    IN  IF e # "none" THEN Failed(e)
        ELSE Returned(
               CASE method = "ang_to_earth" -> ang_to_earth(geometry, plane_i)
                 [] method = "ang_between_planes" ->
                       ang_between_planes(geometry, plane_i, plane_j)
                 [] method = "critical_density_kpc" ->
                       critical_density_kpc(geometry, plane_i, plane_j)
                 [] method = "critical_density_arcsec" ->
                       critical_density_arcsec(geometry, plane_i, plane_j)
                 [] method = "scaling_factor" -> scaling_factor(geometry, plane_i, plane_j))

(***************************************************************************)
(* autolens/lens/plane.py: the properties of a plane.  Reading a property  *)
(* yields [exc, value, cosmology_calls]: value is None for Python's None,  *)
(* cosmology_calls counts the calls made on the plane's cosmology.         *)
(***************************************************************************)
PropertyValue(value, calls) == [exc |-> "none", value |-> value, cosmology_calls |-> calls]

PropertyRaised(type, calls) == [exc |-> type, value |-> None, cosmology_calls |-> calls]

\* mutant: a plane without redshift gets 0
check_plane_for_redshift_zero(plane, func_self) ==
    IF plane.redshift # NoRedshift THEN func_self ELSE PropertyValue(Some(Zero), 0)

\* the wrapper of check_plane_for_redshift; func_self is func(self), evaluated only in
\* the branch that calls it
check_plane_for_redshift(plane, func_self) ==
    IF plane.redshift # NoRedshift THEN func_self ELSE PropertyValue(None, 0)

\* cosmology.critical_density(z)
critical_density(cosmology, z) == R(3 * (1 + z) * (1 + z))

plane_arcsec_per_kpc_proper(plane) ==
    check_plane_for_redshift(plane,
        PropertyValue(Some(arcsec_per_kpc_proper(plane.cosmology, plane.redshift)), 1))

plane_kpc_per_arcsec_proper(plane) ==
    check_plane_for_redshift(plane,
        LET a == plane_arcsec_per_kpc_proper(plane)
        IN  PropertyValue(Some(RDiv(One, Get(a.value))), a.cosmology_calls))

plane_angular_diameter_distance_to_earth(plane) ==
    check_plane_for_redshift(plane,
        PropertyValue(Some(angular_diameter_distance(plane.cosmology, plane.redshift)), 1))

plane_cosmic_average_mass_density_arcsec(plane) ==
    check_plane_for_redshift(plane,
        LET a == plane_arcsec_per_kpc_proper(plane)
            cube == RMul(Get(a.value), RMul(Get(a.value), Get(a.value)))
        IN  PropertyValue(Some(RDiv(critical_density(plane.cosmology, plane.redshift), cube)),
                          1 + a.cosmology_calls))

has_mass_profile(plane) == \E k \in 1..Len(plane.galaxies) : plane.galaxies[k].mass # 0

\* galaxy.einstein_radius: None without mass profile
galaxy_einstein_radius(galaxy) == IF galaxy.mass = 0 THEN None ELSE Some(R(galaxy.mass))

\* sum(filter(None, list(map(lambda galaxy: galaxy.einstein_radius, galaxies))))
RECURSIVE SumEinsteinRadii(_)
SumEinsteinRadii(galaxies) ==
    IF galaxies = <<>> THEN Zero
    ELSE LET radius == galaxy_einstein_radius(Head(galaxies))
         IN  IF IsNone(radius) \/ radius = Some(Zero) THEN SumEinsteinRadii(Tail(galaxies))
             ELSE RAdd(Get(radius), SumEinsteinRadii(Tail(galaxies)))

\* falls off the end of the function (None) without mass profile
einstein_radius_arcsec(plane) ==
    IF has_mass_profile(plane) THEN Some(SumEinsteinRadii(plane.galaxies)) ELSE None

plane_einstein_radius_kpc(plane) ==
    check_plane_for_redshift(plane,
        IF has_mass_profile(plane)
        THEN LET k == plane_kpc_per_arcsec_proper(plane)
             IN  PropertyValue(Some(RMul(Get(k.value), Get(einstein_radius_arcsec(plane)))),
                               k.cosmology_calls)
        ELSE PropertyValue(None, 0))

\* list(filter(lambda galaxy: galaxy.has_pixelization, galaxies))
galaxies_with_pixelization(galaxies) == SelectSeq(galaxies, LAMBDA g : ~ IsNone(g.pixelization))

\* list(filter(lambda galaxy: galaxy.has_regularization, galaxies))
galaxies_with_regularization(galaxies) ==
    SelectSeq(galaxies, LAMBDA g : ~ IsNone(g.regularization))

\* pixelization.mapper_from_grid_stack_and_border(grid_stack, border)
mapper_from_grid_stack_and_border(pixelization, grid_stack, border) ==
    [pixelization |-> pixelization, grid_stack |-> grid_stack, border |-> border]

\* mutant: with several pixelized galaxies the first one's mapper is returned
mapper_first(plane) ==
    LET with == galaxies_with_pixelization(plane.galaxies)
    IN  IF Len(with) = 0 THEN PropertyValue(None, 0)
        ELSE PropertyValue(Some(mapper_from_grid_stack_and_border(
                                    Get(with[1].pixelization), plane.grid_stack, plane.border)), 0)

\* AbstractGriddedPlane.mapper
mapper(plane) ==
    LET with == galaxies_with_pixelization(plane.galaxies)
    IN  IF Len(with) = 0 THEN PropertyValue(None, 0)
        ELSE IF Len(with) = 1
        THEN PropertyValue(Some(mapper_from_grid_stack_and_border(
                                    Get(with[1].pixelization), plane.grid_stack, plane.border)), 0)
        ELSE PropertyRaised("PixelizationException", 0)

\* AbstractPlane.regularization
regularization(plane) ==
    LET with == galaxies_with_regularization(plane.galaxies)
    IN  IF Len(with) = 0 THEN PropertyValue(None, 0)
        ELSE IF Len(with) = 1 THEN PropertyValue(Some(Get(with[1].regularization)), 0)
        ELSE PropertyRaised("PixelizationException", 0)

(***************************************************************************)
(* autolens/fit/fit_point_source.py: what the fits ask of a tracer and of  *)
(* the grids.  A tracer of this module is a list of planes, each with a    *)
(* lens of convergence kappa and shear gamma, whose deflection at (y, x)   *)
(* is ((kappa + gamma) y, (kappa - gamma) x), and with a list of point     *)
(* source profiles [name, cls, centre, flux]; flux is None for a profile   *)
(* class without flux attribute.                                           *)
(***************************************************************************)
RLe(a, b) == a[1] * b[2] <= b[1] * a[2]

\* max(values) of a non-empty list
RECURSIVE RMax(_)
RMax(values) ==
    IF Len(values) = 1 THEN values[1]
    ELSE LET rest == RMax(Tail(values))
         IN  IF RLe(rest, values[1]) THEN values[1] ELSE rest

\* the square root of a rational that is the square of a rational
ISqrt(n) == CHOOSE k \in 0..n : k * k = n
RSqrt(a) == <<ISqrt(a[1]), ISqrt(a[2])>>

SquaredDistance(u, v) ==
    LET d == VSub(u, v) IN RAdd(RMul(d[1], d[1]), RMul(d[2], d[2]))

Distance(u, v) == RSqrt(SquaredDistance(u, v))

PointSource(name, centre) == [name |-> name, cls |-> "PointSource", centre |-> centre,
                              flux |-> None]

PointSourceFlux(name, centre, flux) ==
    [name |-> name, cls |-> "PointSourceFlux", centre |-> centre, flux |-> Some(flux)]

\* hasattr(profile, "flux")
hasattr_flux(profile) == ~ IsNone(profile.flux)

FitPlane(kappa, gamma, profiles) == [kappa |-> kappa, gamma |-> gamma, profiles |-> profiles]

\* all profiles of the tracer, in plane order
RECURSIVE ProfilesOf(_)
ProfilesOf(planes) == IF planes = <<>> THEN <<>> ELSE Head(planes).profiles \o ProfilesOf(Tail(planes))

\* tracer.extract_profile(profile_name): the profile of that name, None without one
extract_profile(tracer, profile_name) ==
    LET named == SelectSeq(ProfilesOf(tracer.planes), LAMBDA q : q.name = profile_name)
    IN  IF named = <<>> THEN None ELSE Some(named[1])

\* tracer.extract_plane_index_of_profile(profile_name)
extract_plane_index_of_profile(tracer, profile_name) ==
    (CHOOSE k \in 1..Len(tracer.planes) :
        /\ \E n \in 1..Len(tracer.planes[k].profiles) :
              tracer.planes[k].profiles[n].name = profile_name
        /\ \A l \in 1..(k - 1) : \A n \in 1..Len(tracer.planes[l].profiles) :
              tracer.planes[l].profiles[n].name # profile_name) - 1

\* deflection of one plane's lens at a coordinate
lens_deflection(plane, coord) ==
    <<RMul(R(plane.kappa + plane.gamma), coord[1]),
      RMul(R(plane.kappa - plane.gamma), coord[2])>>

\* the coordinate seen in plane plane_j (0-based) for an image-plane coordinate
RECURSIVE traced_coordinate(_, _, _)
traced_coordinate(tracer, coord, plane_j) ==
    IF plane_j = 0 THEN coord
    ELSE LET previous == traced_coordinate(tracer, coord, plane_j - 1)
         IN  VSub(previous, lens_deflection(tracer.planes[plane_j], previous))

\* tracer.traced_grids_of_planes_from_grid(grid): one grid per plane
traced_grids_of_planes_from_grid(tracer, grid) ==
    [k \in 1..Len(tracer.planes) |->
        [i \in 1..Len(grid) |-> traced_coordinate(tracer, grid[i], k - 1)]]

\* tracer.deflections_between_planes_from_grid(grid, plane_i=0, plane_j) at one
\* coordinate; tracer.deflections_from_grid is the case of the last plane
deflections_between_planes(tracer, coord, plane_j) ==
    VSub(coord, traced_coordinate(tracer, coord, plane_j))

\* tracer.magnification_via_hessian_from_grid(grid, deflections_func): for every
\* coordinate 1 / det(I - H), H the Hessian of the deflections taken by finite
\* differences; deflections_func is given by the plane the deflections lead to
magnification_via_hessian_from_grid(tracer, grid, plane_j) ==
    [i \in 1..Len(grid) |->
        LET at == deflections_between_planes(tracer, grid[i], plane_j)
            up == deflections_between_planes(tracer, VAdd(grid[i], <<One, Zero>>), plane_j)
            right == deflections_between_planes(tracer, VAdd(grid[i], <<Zero, One>>), plane_j)
            h_yy == RSub(up[1], at[1])
            h_xy == RSub(up[2], at[2])
            h_yx == RSub(right[1], at[1])
            h_xx == RSub(right[2], at[2])
        IN  RDiv(One, RSub(RMul(RSub(One, h_yy), RSub(One, h_xx)), RMul(h_xy, h_yx)))]

\* positions_solver.solve(lensing_obj, source_plane_coordinate, upper_plane_index): the
\* image-plane coordinates that the tracer takes to the source-plane coordinate
solve(tracer, source_plane_coordinate, plane_j) ==
    LET unit == traced_coordinate(tracer, <<One, One>>, plane_j)
    IN  << <<RDiv(source_plane_coordinate[1], unit[1]),
             RDiv(source_plane_coordinate[2], unit[2])>> >>

\* model_positions.grid_of_closest_from_grid_pair(grid_pair): for every coordinate of
\* grid_pair the closest of the model positions
grid_of_closest_from_grid_pair(model_positions, grid_pair) ==
    [i \in 1..Len(grid_pair) |->
        model_positions[CHOOSE m \in 1..Len(model_positions) :
            \A n \in 1..Len(model_positions) :
                /\ RLe(SquaredDistance(model_positions[m], grid_pair[i]),
                       SquaredDistance(model_positions[n], grid_pair[i]))
                /\ (n < m => SquaredDistance(model_positions[n], grid_pair[i])
                                 # SquaredDistance(model_positions[m], grid_pair[i]))]]

\* grid.furthest_distances_from_other_coordinates: for every coordinate the largest
\* distance to a coordinate of the grid
furthest_distances_from_other_coordinates(grid) ==
    [i \in 1..Len(grid) |-> RMax([j \in 1..Len(grid) |-> Distance(grid[i], grid[j])])]

\* abs(...) of an array of values
abs(values) == [i \in 1..Len(values) |-> RAbs(values[i])]

\* FitData.__init__(data, noise_map, model_data, mask=None, inversion=None)
FitData__init__(fit, data, noise_map, model_data) ==
    [fit EXCEPT !.data = Some(data), !.noise_map = Some(noise_map),
                !.model_data = Some(model_data)]

(***************************************************************************)
(* autolens/fit/fit_point_source.py: the constructors.  A constructor call *)
(* yields [exc, msg, fit, solver_calls, magnification_calls]: fit is       *)
(* Some(object) when it returned; the two counters count the calls of      *)
(* positions_solver.solve and of magnification_via_hessian_from_grid.      *)
(***************************************************************************)
NoMatchingProfileMessage(name) ==
    <<"For the point-source named ", name,
      " there was no matching point source profile in the tracer (make sure your tracer's point source name is the same the dataset name.">>

\* mutant: the message of the missing profile
NoFluxMessage_same(name, cls) == NoMatchingProfileMessage(name)

NoFluxMessage(name, cls) ==
    <<"For the point-source named ", name, " the extracted point source was the class ", cls,
      " and therefore does not contain a flux component.">>

FitRaised(type, msg) ==
    [exc |-> type, msg |-> msg, fit |-> None, solver_calls |-> 0, magnification_calls |-> 0]

NewFit(cls) ==
    [cls |-> cls, name |-> None, positions |-> None, positions_solver |-> None,
     point_source_profile |-> None, source_plane_coordinate |-> None,
     magnifications |-> None, source_plane_positions |-> None,
     data |-> None, noise_map |-> None, model_data |-> None]

\* the plane (0-based) that upper_plane_index stands for: None is the last plane
UpperPlane(tracer, name) ==
    IF Len(tracer.planes) > 2 THEN extract_plane_index_of_profile(tracer, name)
    ELSE Len(tracer.planes) - 1

\* AbstractFitPositionsSourcePlane.__init__ (FitPositionsSourceMaxSeparation.__init__
\* only calls it)
AbstractFitPositionsSourcePlane__init__(positions, noise_map, tracer) ==
    [exc |-> "none", msg |-> <<>>,
     fit |-> Some([NewFit("FitPositionsSourceMaxSeparation") EXCEPT
                      !.positions = Some(positions),
                      !.noise_map = Some(noise_map),
                      !.source_plane_positions =
                          Some(PyIndex(traced_grids_of_planes_from_grid(tracer, positions),
                                       -1))]),
     solver_calls |-> 0, magnification_calls |-> 0]

furthest_separations_of_source_plane_positions(fit) ==
    furthest_distances_from_other_coordinates(Get(fit.source_plane_positions))

max_separation_of_source_plane_positions(fit) ==
    RMax(furthest_separations_of_source_plane_positions(fit))

\* mutant: strictly below the threshold
max_separation_within_threshold_strict(fit, threshold) ==
    /\ RLe(max_separation_of_source_plane_positions(fit), threshold)
    /\ max_separation_of_source_plane_positions(fit) # threshold

max_separation_within_threshold(fit, threshold) ==
    RLe(max_separation_of_source_plane_positions(fit), threshold)

\* mutant: any profile of the tracer is taken for the named one
FitPositionsImage__init__any(name, positions, noise_map, tracer, positions_solver) ==
    LET profiles == ProfilesOf(tracer.planes)
    IN  IF profiles = <<>>
        THEN FitRaised("PointSourceExtractionException", NoMatchingProfileMessage(name))
        ELSE [exc |-> "none", msg |-> <<>>,
              fit |-> Some(FitData__init__(
                          [NewFit("FitPositionsImage") EXCEPT
                              !.name = Some(name),
                              !.positions_solver = Some(positions_solver),
                              !.point_source_profile = Some(profiles[1]),
                              !.source_plane_coordinate = Some(profiles[1].centre)],
                          positions, noise_map,
                          grid_of_closest_from_grid_pair(
                              solve(tracer, profiles[1].centre, Len(tracer.planes) - 1),
                              positions))),
              solver_calls |-> 1, magnification_calls |-> 0]

\* FitPositionsImage.__init__
FitPositionsImage__init__(name, positions, noise_map, tracer, positions_solver) ==
    LET point_source_profile == extract_profile(tracer, name)
    IN  IF IsNone(point_source_profile)
        THEN FitRaised("PointSourceExtractionException", NoMatchingProfileMessage(name))
        ELSE LET source_plane_coordinate == Get(point_source_profile).centre
                 model_positions == solve(tracer, source_plane_coordinate,
                                          UpperPlane(tracer, name))
             IN  [exc |-> "none", msg |-> <<>>,
                  fit |-> Some(FitData__init__(
                              [NewFit("FitPositionsImage") EXCEPT
                                  !.name = Some(name),
                                  !.positions_solver = Some(positions_solver),
                                  !.point_source_profile = point_source_profile,
                                  !.source_plane_coordinate = Some(source_plane_coordinate)],
                              positions, noise_map,
                              grid_of_closest_from_grid_pair(model_positions, positions))),
                  solver_calls |-> 1, magnification_calls |-> 0]

\* mutant: the flux of the source is left out
model_fluxes_of_magnification(magnifications, flux) == magnifications

\* values=[magnification * self.point_source_profile.flux
\*         for magnification in self.magnifications]
model_fluxes_of(magnifications, flux) ==
    [i \in 1..Len(magnifications) |-> RMul(magnifications[i], flux)]

\* FitFluxes.__init__
FitFluxes__init__(name, fluxes, noise_map, positions, tracer) ==
    LET point_source_profile == extract_profile(tracer, name)
    IN  IF IsNone(point_source_profile)
        THEN FitRaised("PointSourceExtractionException", NoMatchingProfileMessage(name))
        ELSE IF ~ hasattr_flux(Get(point_source_profile))
        THEN FitRaised("PointSourceExtractionException",
                       NoFluxMessage(name, Get(point_source_profile).cls))
        ELSE LET magnifications ==
                     abs(magnification_via_hessian_from_grid(tracer, positions,
                                                             UpperPlane(tracer, name)))
             IN  [exc |-> "none", msg |-> <<>>,
                  fit |-> Some(FitData__init__(
                              [NewFit("FitFluxes") EXCEPT
                                  !.name = Some(name),
                                  !.positions = Some(positions),
                                  !.point_source_profile = point_source_profile,
                                  !.magnifications = Some(magnifications)],
                              fluxes, noise_map,
                              model_fluxes_of(magnifications,
                                              Get(Get(point_source_profile).flux)))),
                  solver_calls |-> 0, magnification_calls |-> 1]

(***************************************************************************)
(* src/analysis/ray_tracing.py: light of a plane                           *)
(***************************************************************************)
\* sub_coords_grid.sub_data_to_image(sub_intensities): the mean over the sub
\* coordinates of every pixel; sub_length sub coordinates per pixel
sub_data_to_image(sub_intensities, sub_length) ==
    [i \in 1..(Len(sub_intensities) \div sub_length) |->
        RDiv(RSumSeq(SubSeq(sub_intensities, (i - 1) * sub_length + 1, i * sub_length)),
             R(sub_length))]

intensities_via_sub_grid(coordinates_collection, galaxies) ==
    sub_data_to_image(SumIntensities(galaxies, coordinates_collection.sub),
                      SubLength(coordinates_collection))

intensities_via_grid(coords_grid, galaxies) == SumIntensities(galaxies, coords_grid)

\* Plane.generate_image_of_galaxy_light_profiles
plane_image(plane) == intensities_via_sub_grid(plane.coordinates_collection, plane.galaxies)

\* Plane.generate_blurring_image_of_galaxy_light_profiles
plane_blurring_image(plane) ==
    intensities_via_grid(plane.coordinates_collection.blurring, plane.galaxies)

(***************************************************************************)
(* src/analysis/ray_tracing.py: MultiTracer.__init__, the pure parts       *)
(***************************************************************************)
\* sorted(galaxies, key=lambda galaxy: galaxy.redshift): stable, ascending
RECURSIVE insert_sorted(_, _)
insert_sorted(list, galaxy) ==
    IF list = <<>> THEN <<galaxy>>
    ELSE IF list[Len(list)].redshift <= galaxy.redshift THEN Append(list, galaxy)
    ELSE Append(insert_sorted(SubSeq(list, 1, Len(list) - 1), galaxy), list[Len(list)])

RECURSIVE sorted(_)
sorted(galaxies) ==
    IF galaxies = <<>> THEN <<>>
    ELSE insert_sorted(sorted(SubSeq(galaxies, 1, Len(galaxies) - 1)), galaxies[Len(galaxies)])

\* comparing None with a number (or with None) is a TypeError
sort_raises(galaxies) ==
    Len(galaxies) >= 2 /\ \E i \in 1..Len(galaxies) : galaxies[i].redshift = NoRedshift

\* mutant: every redshift is kept, repeated ones too
first_occurrences_all(galaxy_redshifts) == galaxy_redshifts

\* [redshift for i, redshift in enumerate(galaxy_redshifts) if redshift not in galaxy_redshifts[:i]]
RECURSIVE first_occurrences(_)
first_occurrences(galaxy_redshifts) ==
    IF galaxy_redshifts = <<>> THEN <<>>
    ELSE LET n == Len(galaxy_redshifts)
             before == first_occurrences(SubSeq(galaxy_redshifts, 1, n - 1))
         IN  IF \E i \in 1..(n - 1) : galaxy_redshifts[i] = galaxy_redshifts[n]
             THEN before
             ELSE Append(before, galaxy_redshifts[n])

planes_redshift_order_of(galaxies_redshift_order) ==
    first_occurrences([i \in 1..Len(galaxies_redshift_order) |->
                           galaxies_redshift_order[i].redshift])

\* list(filter(None, map(lambda galaxy: galaxy if galaxy.redshift == plane_redshift else None, ...)))
RECURSIVE galaxies_at(_, _)
galaxies_at(galaxies, plane_redshift) ==
    IF galaxies = <<>> THEN <<>>
    ELSE LET rest == galaxies_at(Tail(galaxies), plane_redshift)
         IN  IF Head(galaxies).redshift = plane_redshift THEN <<Head(galaxies)>> \o rest
             ELSE rest

planes_galaxies_of(galaxies_redshift_order, planes_redshift_order) ==
    [k \in 1..Len(planes_redshift_order) |->
        galaxies_at(galaxies_redshift_order, planes_redshift_order[k])]

\* mutant: the last plane is not told apart from the others
compute_deflections_of_every(plane_index, n_planes) ==
    IF plane_index < n_planes THEN "True"
    ELSE IF plane_index = n_planes - 1 THEN "False"
    ELSE "raise"

\* the branch on plane_index at the head of the loop body
compute_deflections_of(plane_index, n_planes) ==
    IF plane_index < n_planes - 1 THEN "True"
    ELSE IF plane_index = n_planes - 1 THEN "False"
    ELSE "raise"

\* mutant: the loop over plane_index stops one plane early
plane_indices_short(planes_redshift_order) == 0..(Len(planes_redshift_order) - 2)

\* ray_tracing.py line 100: range(0, len(self.planes_redshift_order))
plane_indices(planes_redshift_order) == 0..(Len(planes_redshift_order) - 1)

\* mutant: the inner loop runs up to plane_index itself
previous_plane_indices_inclusive(plane_index) == 0..plane_index

\* ray_tracing.py line 112: range(plane_index)
previous_plane_indices(plane_index) == 0..(plane_index - 1)

\* mutant: the grid of the plane before, traced by that plane's deflections alone
new_grid_chained(image_plane_grids, planes, geometry, plane_index, n) ==
    IF n = 0 THEN image_plane_grids
    ELSE trace_to_next_plane(PyIndex(planes, plane_index - 1))

\* new_grid after the inner loop has handled previous_plane_index = 0 .. n-1
RECURSIVE new_grid_after(_, _, _, _, _)
new_grid_after(image_plane_grids, planes, geometry, plane_index, n) ==
    IF n = 0 THEN image_plane_grids
    ELSE LET new_grid == new_grid_after(image_plane_grids, planes, geometry, plane_index, n - 1)
             previous_plane_index == n - 1
             factor == scaling_factor(geometry, previous_plane_index, plane_index)
             scaled_deflections ==
                 [v \in Variants |->
                     ArrScale(factor, Get(PyIndex(planes, previous_plane_index).deflections)[v])]
         IN  [v \in Variants |-> ArrSub(new_grid[v], scaled_deflections[v])]

\* np.ndarray.sum(np.array(list of the planes' images)): without an axis the sum runs
\* over every element of the (planes x pixels) array and is a scalar
RECURSIVE ndarray_sum(_)
ndarray_sum(images) ==
    IF images = <<>> THEN Zero
    ELSE RAdd(RSumSeq(Head(images)), ndarray_sum(Tail(images)))

MultiTracer_generate_image(planes) ==
    ndarray_sum([k \in 1..Len(planes) |-> plane_image(planes[k])])

MultiTracer_generate_blurring_image(planes) ==
    ndarray_sum([k \in 1..Len(planes) |-> plane_blurring_image(planes[k])])

\* Tracer: image plane image + source plane image, elementwise
Tracer_generate_image(tracer) ==
    ScalAdd(plane_image(Get(tracer.image_plane)), plane_image(Get(tracer.source_plane)))

Tracer_generate_blurring_image(tracer) ==
    ScalAdd(plane_blurring_image(Get(tracer.image_plane)),
            plane_blurring_image(Get(tracer.source_plane)))

(***************************************************************************)
(* src/analysis/ray_tracing.py: MultiTracer.__init__ as one call, and the  *)
(* calls a caller makes on a tracer it holds                               *)
(***************************************************************************)
\* lines 98-128: self.planes after the passes for plane_index = 0 .. k-1
RECURSIVE planes_after(_, _, _, _)
planes_after(image_plane_grids, planes_galaxies, geometry, k) ==
    IF k = 0 THEN <<>>
    ELSE LET planes == planes_after(image_plane_grids, planes_galaxies, geometry, k - 1)
             plane_index == k - 1
             new_grid == new_grid_after(image_plane_grids, planes, geometry, plane_index,
                                        Cardinality(previous_plane_indices(plane_index)))
             res == RT_Plane__init__(PyIndex(planes_galaxies, plane_index), new_grid,
                                     compute_deflections_of(plane_index, Len(planes_galaxies))
                                        = "True")
         IN  Append(planes, Get(res.plane))

\* lines 78-128; [exc, tracer]: the exception that ended the call and the tracer returned
MultiTracer__init__(galaxies, image_plane_grids, cosmology) ==
    IF sort_raises(galaxies) THEN [exc |-> "TypeError", tracer |-> None]
    ELSE LET galaxies_redshift_order == sorted(galaxies)
             planes_redshift_order == planes_redshift_order_of(galaxies_redshift_order)
             geometry == TracerGeometry__init__(planes_redshift_order, cosmology)
             planes_galaxies == planes_galaxies_of(galaxies_redshift_order,
                                                   planes_redshift_order)
         IN  IF geometry.exc # "none" THEN [exc |-> geometry.exc, tracer |-> None]
             ELSE [exc |-> "none",
                   tracer |-> Some([galaxies_redshift_order |-> galaxies_redshift_order,
                                    planes_redshift_order |-> planes_redshift_order,
                                    geometry |-> geometry.geometry,
                                    planes_galaxies |-> planes_galaxies,
                                    planes |-> planes_after(image_plane_grids, planes_galaxies,
                                                            Get(geometry.geometry),
                                                            Len(planes_redshift_order))])]

\* pixelization.inversion_from_pix_grids(coordinates_collection, sparse_mask)
inversion_from_pix_grids(pixelization, coordinates_collection, sparse_mask) ==
    [pixelization |-> pixelization, grids |-> coordinates_collection,
     sparse_mask |-> sparse_mask]

\* lines 248-257: Plane.generate_pixelization_matrices_of_galaxy
generate_pixelization_matrices_of_galaxy(plane, sparse_mask) ==
    LET pixelized_galaxies == galaxies_with_pixelization(plane.galaxies)
    IN  IF Len(pixelized_galaxies) = 0 THEN Returned(None)
        ELSE IF Len(pixelized_galaxies) = 1
        THEN Returned(Some(inversion_from_pix_grids(Get(pixelized_galaxies[1].pixelization),
                                                    plane.coordinates_collection, sparse_mask)))
        ELSE Failed("PixelizationException")

\* the outcome of a call on the objects a caller holds (a MultiTracer and a Plane of
\* autolens/lens/plane.py): the exception the call ended with, the value it returned and
\* the objects as the call leaves them
Observed(exc, value, objects) == [exc |-> exc, value |-> value, objects |-> objects]

\* mutant: trace_to_next_plane subtracts in place, np.subtract(grid, deflections, out=grid)
Observe_in_place(objects, query) ==
    LET tracer == Get(objects.tracer)
        plane == PyIndex(tracer.planes, query.plane_index)
        traced == trace_to_next_plane(plane)
    IN  IF query.name = "trace_to_next_plane" /\ ~ IsNone(plane.deflections)
        THEN Observed("none", Some(traced),
                      [objects EXCEPT !.tracer = Some([tracer EXCEPT
                           !.planes[query.plane_index + 1].coordinates_collection = traced])])
        ELSE Observed("TypeError", None, objects)

\* lines 130-141 and 232-257, and the properties mapper and regularization of plane.py:
\* none of them assigns to an attribute
Observe(objects, query) ==
    LET tracer == Get(objects.tracer)
    IN  CASE query.name = "generate_image_of_galaxy_light_profiles" ->
               Observed("none", Some(MultiTracer_generate_image(tracer.planes)), objects)
          [] query.name = "generate_blurring_image_of_galaxy_light_profiles" ->
               Observed("none", Some(MultiTracer_generate_blurring_image(tracer.planes)),
                        objects)
          [] query.name = "generate_pixelization_matrices_of_galaxies" ->
               LET matrices == [k \in 1..Len(tracer.planes) |->
                                   generate_pixelization_matrices_of_galaxy(tracer.planes[k],
                                                                            "sparse_mask")]
               IN  IF \E k \in 1..Len(matrices) : matrices[k].exc # "none"
                   THEN Observed("PixelizationException", None, objects)
                   ELSE Observed("none",
                                 Some([k \in 1..Len(matrices) |-> Get(matrices[k].value)]),
                                 objects)
          [] query.name = "trace_to_next_plane" ->
               LET plane == PyIndex(tracer.planes, query.plane_index)
               IN  IF IsNone(plane.deflections)
                   THEN Observed("AttributeError", None, objects)
                   ELSE Observed("none", Some(trace_to_next_plane(plane)), objects)
          [] query.name = "mapper" ->
               LET res == mapper(Get(objects.plane))
               IN  Observed(res.exc, res.value, objects)
          [] query.name = "regularization" ->
               LET res == regularization(Get(objects.plane))
               IN  Observed(res.exc, res.value, objects)

(***************************************************************************)
(* Variables.  pl_*: the plane scenario (one plane constructor call, then  *)
(* one trace).  The others: the tracer scenario, a driver that builds a    *)
(* MultiTracer and a Tracer from the same galaxies and grids and then asks *)
(* both for their images.                                                  *)
(***************************************************************************)
VARIABLES pl_pc, pl_call, pl_res, pl_traced,
          pc, args, mt, mt_exc, tr, tr_exc, source_plane_grids, images

\* caller: the objects the two constructor calls of the driver have returned to it;
\* reads: for every pass of the loop over plane_index, the indices of the planes whose
\* deflections the pass has read
VARIABLES caller, reads

tr_vars == <<pc, args, mt, mt_exc, tr, tr_exc, source_plane_grids, images, caller, reads>>

\* the geometry scenario: a TracerGeometry, the last call made on it and its outcome;
\* geo_hist: the distances the cosmology has been asked for so far, the number of times
\* the request has been made and the outcome of the first time
VARIABLES geo, geo_call, geo_res, geo_hist

ge_vars == <<geo, geo_call, geo_res, geo_hist>>

\* the property scenario: a plane, the property read on it last and the outcome
VARIABLES qp_plane, qp_call, qp_res

qp_vars == <<qp_plane, qp_call, qp_res>>

\* the fit scenario: a fit of fit_point_source.py, the arguments of its constructor, the
\* outcome of the constructor and the last method called on the fit
VARIABLES fit_call, fit_res, fit_query

fit_vars == <<fit_call, fit_res, fit_query>>

\* the observation scenario: the objects a caller holds, the first outcome of every call
\* made on them so far and the last call
VARIABLES ob, ob_first, ob_call

ob_vars == <<ob, ob_first, ob_call>>

\* the concurrency scenario: the galaxies, the grids and the cosmology two constructor
\* calls share (with a copy of what the caller gave), and for each of the two calls its
\* class, its place in the constructor, the object under construction and its outcome
VARIABLES cc_in, cc

cc_vars == <<cc_in, cc>>

\* the units scenario: the dimension value held with the value it was made as and the
\* conversions that led from one to the other, the profile held, and the last call
VARIABLES un, un_profile, un_call

un_vars == <<un, un_profile, un_call>>

\* the analysis scenario: the Analysis object of a phase, and what its calls did
VARIABLES an, an_log

an_vars == <<an, an_log>>

\* the hyper scenario: the result objects by identity with the list previous_results of
\* them and the place of the call of hyper_run, and the sub-phases run
VARIABLES hy, hy_log

hy_vars == <<hy, hy_log>>

\* the variables of the scenarios that follow the fit scenario
ext_vars == <<ob_vars, cc_vars, un_vars, an_vars, hy_vars>>

\* the variables of the scenarios other than the plane and the tracer scenario
aux_vars == <<ge_vars, qp_vars, fit_vars, ext_vars>>

(***************************************************************************)
(* State of the plane scenario: one constructor call and one trace.        *)
(***************************************************************************)

pl_vars == <<pl_pc, pl_call, pl_res, pl_traced>>

NoCall == [cls |-> "none", galaxies |-> <<>>, grid_stack |-> GridBundle(1, 1),
           compute_deflections |-> FALSE, redshift |-> NoRedshift]

PlaneSliceRedshifts == {NoRedshift, 1, 2}

PlaneInit ==
    /\ pl_pc = "idle"
    /\ pl_call = NoCall
    /\ pl_res = Raised("none", "")
    /\ pl_traced = None

\* after a constructor call: "built" when it returned, "raised" otherwise
AfterCall(res) == IF res.exc = "none" THEN "built" ELSE "raised"

\* Plane(galaxies, grid_stack, compute_deflections=...)
NewPlane ==
    /\ pl_pc = "idle"
    /\ \E galaxies \in GalaxyLists, grid_stack \in GridBundles, compute_deflections \in BOOLEAN :
          LET res == Plane__init__(galaxies, grid_stack, None, compute_deflections, "Planck15")
          IN  /\ pl_call' = [cls |-> "Plane", galaxies |-> galaxies, grid_stack |-> grid_stack,
                             compute_deflections |-> compute_deflections,
                             redshift |-> NoRedshift]
              /\ pl_res' = res
              /\ pl_pc' = AfterCall(res)
    /\ UNCHANGED <<pl_traced, tr_vars, aux_vars>>

\* PlaneSlice(galaxies, grid_stack, redshift, compute_deflections=...)
NewPlaneSlice ==
    /\ pl_pc = "idle"
    /\ \E galaxies \in GalaxyLists, grid_stack \in GridBundles, compute_deflections \in BOOLEAN,
          redshift \in PlaneSliceRedshifts :
          LET res == PlaneSlice__init__(galaxies, grid_stack, redshift, None,
                                        compute_deflections, "Planck15")
          IN  /\ pl_call' = [cls |-> "PlaneSlice", galaxies |-> galaxies,
                             grid_stack |-> grid_stack,
                             compute_deflections |-> compute_deflections,
                             redshift |-> redshift]
              /\ pl_res' = res
              /\ pl_pc' = AfterCall(res)
    /\ UNCHANGED <<pl_traced, tr_vars, aux_vars>>

\* ray_tracing.Plane(galaxies, coordinates_collection, compute_deflections=...)
NewRTPlane ==
    /\ pl_pc = "idle"
    /\ \E galaxies \in GalaxyLists, grid_stack \in GridBundles, compute_deflections \in BOOLEAN :
          LET res == RT_Plane__init__(galaxies, grid_stack, compute_deflections)
          IN  /\ pl_call' = [cls |-> "RTPlane", galaxies |-> galaxies,
                             grid_stack |-> grid_stack,
                             compute_deflections |-> compute_deflections,
                             redshift |-> NoRedshift]
              /\ pl_res' = res
              /\ pl_pc' = AfterCall(res)
    /\ UNCHANGED <<pl_traced, tr_vars, aux_vars>>

\* plane.trace_grid_stack_to_next_plane() on a Plane / PlaneSlice; with deflection_stack
\* None, map_function fails on the None argument
TraceGridStackToNextPlane ==
    /\ pl_pc = "built"
    /\ pl_call.cls \in {"Plane", "PlaneSlice"}
    /\ IF IsNone(Get(pl_res.plane).deflection_stack)
       THEN /\ pl_pc' = "trace_raised"
            /\ UNCHANGED pl_traced
       ELSE /\ pl_pc' = "traced"
            /\ pl_traced' = Some(trace_grid_stack_to_next_plane(Get(pl_res.plane)))
    /\ UNCHANGED <<pl_call, pl_res, tr_vars, aux_vars>>

\* plane.trace_to_next_plane() on a ray_tracing.Plane; without the attribute deflections
\* the call ends in an AttributeError
TraceToNextPlane ==
    /\ pl_pc = "built"
    /\ pl_call.cls = "RTPlane"
    /\ IF IsNone(Get(pl_res.plane).deflections)
       THEN /\ pl_pc' = "trace_raised"
            /\ UNCHANGED pl_traced
       ELSE /\ pl_pc' = "traced"
            /\ pl_traced' = Some(trace_to_next_plane(Get(pl_res.plane)))
    /\ UNCHANGED <<pl_call, pl_res, tr_vars, aux_vars>>

PlaneNext ==
    \/ NewPlane
    \/ NewPlaneSlice
    \/ NewRTPlane
    \/ TraceGridStackToNextPlane
    \/ TraceToNextPlane

(***************************************************************************)
(* The tracer scenario, a driver:                                          *)
(*   mt = MultiTracer(galaxies, image_plane_grids, cosmology)              *)
(*   mt.generate_image_of_galaxy_light_profiles()                          *)
(*   mt.generate_blurring_image_of_galaxy_light_profiles()                 *)
(*   tr = Tracer(galaxies[:split], galaxies[split:], image_plane_grids,    *)
(*               cosmology or None)                                        *)
(*   tr.generate_image_of_galaxy_light_profiles()                          *)
(*   tr.generate_blurring_image_of_galaxy_light_profiles()                 *)
(* Each constructor is followed statement by statement; an exception ends  *)
(* the constructor and the driver goes on with the next constructor call.  *)
(***************************************************************************)
NoArgs == [galaxies |-> <<>>, split |-> 0, image_plane_grids |-> GridBundle(1, 1),
           cosmology |-> CHOOSE c \in Cosmologies : c.name = "Planck15",
           tracer_cosmology |-> FALSE]

NewMultiTracer == [set |-> {}, galaxies_redshift_order |-> <<>>, planes_redshift_order |-> <<>>,
                   geometry |-> None, planes_galaxies |-> <<>>, planes |-> <<>>]

NewTracer == [set |-> {}, geometry |-> None, image_plane |-> None, source_plane |-> None]

NoImages == [mt_image |-> None, mt_blurring |-> None, tr_image |-> None, tr_blurring |-> None]

lens_galaxies_of(a) == SubSeq(a.galaxies, 1, a.split)
source_galaxies_of(a) == SubSeq(a.galaxies, a.split + 1, Len(a.galaxies))
lens_galaxies == lens_galaxies_of(args)
source_galaxies == source_galaxies_of(args)

TracerInit ==
    /\ pc = "start"
    /\ args = NoArgs
    /\ mt = NewMultiTracer
    /\ mt_exc = "none"
    /\ tr = NewTracer
    /\ tr_exc = "none"
    /\ source_plane_grids = None
    /\ images = NoImages
    /\ caller = [mt |-> None, tr |-> None]
    /\ reads = <<>>

\* the driver picks the galaxies, the grids and the cosmology
Setup ==
    /\ pc = "start"
    /\ \E galaxies \in GalaxyLists, image_plane_grids \in GridBundles,
          cosmology \in Cosmologies :
             args' = [galaxies |-> galaxies, split |-> 0,
                      image_plane_grids |-> image_plane_grids, cosmology |-> cosmology,
                      tracer_cosmology |-> FALSE]
    /\ pc' = "mt_sort"
    /\ UNCHANGED <<mt, mt_exc, tr, tr_exc, source_plane_grids, images, caller, reads,
                 pl_vars, aux_vars>>

\* ray_tracing.py line 78
MT_Sort ==
    /\ pc = "mt_sort"
    /\ IF sort_raises(args.galaxies)
       THEN /\ mt_exc' = "TypeError"
            /\ pc' = "tr_geometry"
            /\ UNCHANGED mt
       ELSE /\ mt' = [mt EXCEPT !.galaxies_redshift_order = sorted(args.galaxies),
                                !.set = @ \cup {"galaxies_redshift_order"}]
            /\ pc' = "mt_redshifts"
            /\ UNCHANGED mt_exc
    /\ UNCHANGED <<args, tr, tr_exc, source_plane_grids, images, caller, reads,
                 pl_vars, aux_vars>>

\* ray_tracing.py lines 83-85
MT_PlanesRedshiftOrder ==
    /\ pc = "mt_redshifts"
    /\ mt' = [mt EXCEPT !.planes_redshift_order =
                            planes_redshift_order_of(mt.galaxies_redshift_order),
                        !.set = @ \cup {"planes_redshift_order"}]
    /\ pc' = "mt_geometry"
    /\ UNCHANGED <<args, mt_exc, tr, tr_exc, source_plane_grids, images, caller, reads,
                 pl_vars, aux_vars>>

\* ray_tracing.py line 86
MT_Geometry ==
    /\ pc = "mt_geometry"
    /\ LET res == TracerGeometry__init__(mt.planes_redshift_order, args.cosmology)
       IN  IF res.exc # "none"
           THEN /\ mt_exc' = res.exc
                /\ pc' = "tr_geometry"
                /\ UNCHANGED mt
           ELSE /\ mt' = [mt EXCEPT !.geometry = res.geometry, !.set = @ \cup {"geometry"}]
                /\ pc' = "mt_group"
                /\ UNCHANGED mt_exc
    /\ UNCHANGED <<args, tr, tr_exc, source_plane_grids, images, caller, reads,
                 pl_vars, aux_vars>>

\* ray_tracing.py lines 90-98
MT_PlanesGalaxies ==
    /\ pc = "mt_group"
    /\ mt' = [mt EXCEPT !.planes_galaxies =
                            planes_galaxies_of(mt.galaxies_redshift_order,
                                               mt.planes_redshift_order),
                        !.set = @ \cup {"planes_galaxies", "planes"}]
    /\ pc' = "mt_planes"
    /\ UNCHANGED <<args, mt_exc, tr, tr_exc, source_plane_grids, images, caller, reads,
                 pl_vars, aux_vars>>

\* ray_tracing.py lines 100-128: one iteration of the loop over plane_index, or its end;
\* when the loop ends __init__ returns and the caller holds the tracer
MT_Plane ==
    /\ pc = "mt_planes"
    /\ LET plane_index == Len(mt.planes)
           n_planes == Len(mt.planes_redshift_order)
           compute_deflections == compute_deflections_of(plane_index, n_planes)
           previous == previous_plane_indices(plane_index)
       IN  IF plane_index \notin plane_indices(mt.planes_redshift_order)
           THEN /\ pc' = "q_mt_image"
                /\ caller' = [caller EXCEPT !.mt = Some(mt)]
                /\ UNCHANGED <<mt, mt_exc, reads>>
           ELSE IF compute_deflections = "raise"
           THEN /\ mt_exc' = "RayTracingException"
                /\ pc' = "tr_geometry"
                /\ UNCHANGED <<mt, caller, reads>>
           ELSE IF \E p \in previous : ~ PyIndexOK(mt.planes, p)
           THEN /\ mt_exc' = "IndexError"
                /\ pc' = "tr_geometry"
                /\ reads' = Append(reads, previous)
                /\ UNCHANGED <<mt, caller>>
           ELSE IF \E p \in previous : IsNone(PyIndex(mt.planes, p).deflections)
           THEN /\ mt_exc' = "AttributeError"
                /\ pc' = "tr_geometry"
                /\ reads' = Append(reads, previous)
                /\ UNCHANGED <<mt, caller>>
           ELSE LET new_grid == new_grid_after(args.image_plane_grids, mt.planes,
                                               Get(mt.geometry), plane_index,
                                               Cardinality(previous))
                    res == RT_Plane__init__(PyIndex(mt.planes_galaxies, plane_index), new_grid,
                                            compute_deflections = "True")
                IN  /\ mt' = [mt EXCEPT !.planes = Append(@, Get(res.plane))]
                    /\ pc' = "mt_planes"
                    /\ reads' = Append(reads, previous)
                    /\ UNCHANGED <<mt_exc, caller>>
    /\ UNCHANGED <<args, tr, tr_exc, source_plane_grids, images, pl_vars, aux_vars>>

\* a MultiTracer object exists once __init__ has returned
mt_built == mt_exc = "none" /\ pc \notin {"start", "mt_sort", "mt_redshifts", "mt_geometry",
                                          "mt_group", "mt_planes"}

\* mt.generate_image_of_galaxy_light_profiles()
MT_Image ==
    /\ pc = "q_mt_image"
    /\ images' = [images EXCEPT !.mt_image = Some(MultiTracer_generate_image(mt.planes))]
    /\ pc' = "q_mt_blurring"
    /\ UNCHANGED <<args, mt, mt_exc, tr, tr_exc, source_plane_grids, caller, reads,
                 pl_vars, aux_vars>>

\* mt.generate_blurring_image_of_galaxy_light_profiles()
MT_BlurringImage ==
    /\ pc = "q_mt_blurring"
    /\ images' = [images EXCEPT !.mt_blurring =
                                    Some(MultiTracer_generate_blurring_image(mt.planes))]
    /\ pc' = "tr_geometry"
    /\ UNCHANGED <<args, mt, mt_exc, tr, tr_exc, source_plane_grids, caller, reads,
                 pl_vars, aux_vars>>

\* Tracer(galaxies[:split], galaxies[split:], image_plane_grids, cosmology or None):
\* ray_tracing.py lines 32-36
T_Geometry ==
    /\ pc = "tr_geometry"
    /\ \E split \in 0..Len(args.galaxies), tracer_cosmology \in BOOLEAN :
          LET a == [args EXCEPT !.split = split, !.tracer_cosmology = tracer_cosmology]
          IN  /\ args' = a
              /\ IF ~ tracer_cosmology
                 THEN /\ tr' = [tr EXCEPT !.set = @ \cup {"geometry"}]
                      /\ pc' = "tr_image_plane"
                      /\ UNCHANGED tr_exc
                 ELSE IF lens_galaxies_of(a) = <<>> \/ source_galaxies_of(a) = <<>>
                 THEN /\ tr_exc' = "IndexError"
                      /\ pc' = "end"
                      /\ UNCHANGED tr
                 ELSE LET res == TracerGeometry__init__(
                                     <<lens_galaxies_of(a)[1].redshift,
                                       source_galaxies_of(a)[1].redshift>>, a.cosmology)
                      IN  IF res.exc # "none"
                          THEN /\ tr_exc' = res.exc
                               /\ pc' = "end"
                               /\ UNCHANGED tr
                          ELSE /\ tr' = [tr EXCEPT !.geometry = res.geometry,
                                                   !.set = @ \cup {"geometry"}]
                               /\ pc' = "tr_image_plane"
                               /\ UNCHANGED tr_exc
    /\ UNCHANGED <<mt, mt_exc, source_plane_grids, images, caller, reads,
                 pl_vars, aux_vars>>

\* ray_tracing.py line 38
T_ImagePlane ==
    /\ pc = "tr_image_plane"
    /\ LET res == RT_Plane__init__(lens_galaxies, args.image_plane_grids, TRUE)
       IN  tr' = [tr EXCEPT !.image_plane = res.plane, !.set = @ \cup {"image_plane"}]
    /\ pc' = "tr_trace"
    /\ UNCHANGED <<args, mt, mt_exc, tr_exc, source_plane_grids, images, caller, reads,
                 pl_vars, aux_vars>>

\* ray_tracing.py line 40
T_Trace ==
    /\ pc = "tr_trace"
    /\ source_plane_grids' = Some(trace_to_next_plane(Get(tr.image_plane)))
    /\ pc' = "tr_source_plane"
    /\ UNCHANGED <<args, mt, mt_exc, tr, tr_exc, images, caller, reads,
                 pl_vars, aux_vars>>

\* the driver asks a Tracer for its images only when both planes hold galaxies
AfterTracer == IF lens_galaxies # <<>> /\ source_galaxies # <<>> THEN "q_tr_image" ELSE "end"

\* mutant: the source plane is given the image-plane grids
T_SourcePlane_untraced ==
    /\ pc = "tr_source_plane"
    /\ LET res == RT_Plane__init__(source_galaxies, args.image_plane_grids, FALSE)
       IN  tr' = [tr EXCEPT !.source_plane = res.plane, !.set = @ \cup {"source_plane"}]
    /\ caller' = [caller EXCEPT !.tr = Some(tr')]
    /\ pc' = AfterTracer
    /\ UNCHANGED <<args, mt, mt_exc, tr_exc, source_plane_grids, images, reads,
                 pl_vars, aux_vars>>

\* ray_tracing.py line 42; __init__ returns and the caller holds the tracer
T_SourcePlane ==
    /\ pc = "tr_source_plane"
    /\ LET res == RT_Plane__init__(source_galaxies, Get(source_plane_grids), FALSE)
       IN  tr' = [tr EXCEPT !.source_plane = res.plane, !.set = @ \cup {"source_plane"}]
    /\ caller' = [caller EXCEPT !.tr = Some(tr')]
    /\ pc' = AfterTracer
    /\ UNCHANGED <<args, mt, mt_exc, tr_exc, source_plane_grids, images, reads,
                 pl_vars, aux_vars>>

\* a Tracer object exists once __init__ has returned
tr_built == tr_exc = "none" /\ pc \in {"q_tr_image", "q_tr_blurring", "end"}

\* tr.generate_image_of_galaxy_light_profiles()
T_Image ==
    /\ pc = "q_tr_image"
    /\ images' = [images EXCEPT !.tr_image = Some(Tracer_generate_image(tr))]
    /\ pc' = "q_tr_blurring"
    /\ UNCHANGED <<args, mt, mt_exc, tr, tr_exc, source_plane_grids, caller, reads,
                 pl_vars, aux_vars>>

\* tr.generate_blurring_image_of_galaxy_light_profiles()
T_BlurringImage ==
    /\ pc = "q_tr_blurring"
    /\ images' = [images EXCEPT !.tr_blurring = Some(Tracer_generate_blurring_image(tr))]
    /\ pc' = "end"
    /\ UNCHANGED <<args, mt, mt_exc, tr, tr_exc, source_plane_grids, caller, reads,
                 pl_vars, aux_vars>>

TracerNext ==
    \/ Setup
    \/ MT_Sort
    \/ MT_PlanesRedshiftOrder
    \/ MT_Geometry
    \/ MT_PlanesGalaxies
    \/ MT_Plane
    \/ MT_Image
    \/ MT_BlurringImage
    \/ T_Geometry
    \/ T_ImagePlane
    \/ T_Trace
    \/ T_SourcePlane
    \/ T_Image
    \/ T_BlurringImage

(***************************************************************************)
(* The geometry scenario: a caller constructs a TracerGeometry from a list *)
(* of redshifts and calls one of its methods with plane indices that may   *)
(* be negative or too large.                                               *)
(***************************************************************************)
RedshiftLists == SeqsUpTo(1..3, MaxPlanes)

PlaneIndices == (-(MaxPlanes + 1))..MaxPlanes

NoGeometryCall == [method |-> "none", redshifts |-> <<>>, plane_i |-> 0, plane_j |-> 0]

NoHistory == [log |-> <<>>, calls |-> 0, first |-> Failed("none")]

GeometryInit ==
    /\ geo = None
    /\ geo_call = NoGeometryCall
    /\ geo_res = Failed("none")
    /\ geo_hist = NoHistory

\* the request is made for the first time: the cosmology is asked for every distance of
\* the request up to the first lookup that fails
FirstRequest(method, plane_i, plane_j) ==
    [log |-> geo_hist.log \o Consulted(Get(geo).redshifts,
                                       DistanceLookups(Get(geo), method, plane_i, plane_j)),
     calls |-> 1,
     first |-> GeometryCall(Get(geo), method, plane_i, plane_j)]

\* TracerGeometry(redshifts, cosmology)
NewTracerGeometry ==
    /\ geo_call.method = "none"
    /\ \E redshifts \in RedshiftLists, cosmology \in Cosmologies :
          LET res == TracerGeometry__init__(redshifts, cosmology)
          IN  /\ geo' = res.geometry
              /\ geo_call' = [NoGeometryCall EXCEPT !.method = "__init__",
                                                    !.redshifts = redshifts]
              /\ geo_res' = [exc |-> res.exc, value |-> None]
              /\ geo_hist' = [NoHistory EXCEPT
                                 !.log = Consulted(redshifts, << <<Len(redshifts) - 1>> >>)]
    /\ UNCHANGED <<pl_vars, tr_vars, ext_vars, qp_vars, fit_vars>>

\* a geometry has been constructed and no method has been called on it yet
CanCallGeometry == geo_call.method = "__init__" /\ ~ IsNone(geo)

GeometryCalled(method, plane_i, plane_j) ==
    [geo_call EXCEPT !.method = method, !.plane_i = plane_i, !.plane_j = plane_j]

\* geometry.ang_to_earth(plane_i)
G_AngToEarth ==
    /\ CanCallGeometry
    /\ \E i \in PlaneIndices, j \in {0} :
          /\ geo_call' = GeometryCalled("ang_to_earth", i, j)
          /\ geo_res' = GeometryCall(Get(geo), "ang_to_earth", i, j)
          /\ geo_hist' = FirstRequest("ang_to_earth", i, j)
    /\ UNCHANGED <<geo, pl_vars, tr_vars, ext_vars, qp_vars, fit_vars>>

\* geometry.ang_between_planes(plane_i, plane_j)
G_AngBetweenPlanes ==
    /\ CanCallGeometry
    /\ \E i, j \in PlaneIndices :
          /\ geo_call' = GeometryCalled("ang_between_planes", i, j)
          /\ geo_res' = GeometryCall(Get(geo), "ang_between_planes", i, j)
          /\ geo_hist' = FirstRequest("ang_between_planes", i, j)
    /\ UNCHANGED <<geo, pl_vars, tr_vars, ext_vars, qp_vars, fit_vars>>

\* geometry.critical_density_kpc(plane_i, plane_j)
G_CriticalDensityKpc ==
    /\ CanCallGeometry
    /\ \E i, j \in PlaneIndices :
          /\ geo_call' = GeometryCalled("critical_density_kpc", i, j)
          /\ geo_res' = GeometryCall(Get(geo), "critical_density_kpc", i, j)
          /\ geo_hist' = FirstRequest("critical_density_kpc", i, j)
    /\ UNCHANGED <<geo, pl_vars, tr_vars, ext_vars, qp_vars, fit_vars>>

\* geometry.critical_density_arcsec(plane_i, plane_j)
G_CriticalDensityArcsec ==
    /\ CanCallGeometry
    /\ \E i, j \in PlaneIndices :
          /\ geo_call' = GeometryCalled("critical_density_arcsec", i, j)
          /\ geo_res' = GeometryCall(Get(geo), "critical_density_arcsec", i, j)
          /\ geo_hist' = FirstRequest("critical_density_arcsec", i, j)
    /\ UNCHANGED <<geo, pl_vars, tr_vars, ext_vars, qp_vars, fit_vars>>

\* geometry.scaling_factor(plane_i, plane_j)
G_ScalingFactor ==
    /\ CanCallGeometry
    /\ \E i, j \in PlaneIndices :
          /\ geo_call' = GeometryCalled("scaling_factor", i, j)
          /\ geo_res' = GeometryCall(Get(geo), "scaling_factor", i, j)
          /\ geo_hist' = FirstRequest("scaling_factor", i, j)
    /\ UNCHANGED <<geo, pl_vars, tr_vars, ext_vars, qp_vars, fit_vars>>

\* the caller makes the request it has made before once more
G_Repeat ==
    /\ geo_call.method \in GeometryMethods
    /\ geo_hist.calls < MaxCalls
    /\ geo_res' = GeometryCall(Get(geo), geo_call.method, geo_call.plane_i, geo_call.plane_j)
    /\ geo_hist' = [geo_hist EXCEPT
                       !.log = @ \o Consulted(Get(geo).redshifts,
                                              DistanceLookups(Get(geo), geo_call.method,
                                                              geo_call.plane_i,
                                                              geo_call.plane_j)),
                       !.calls = @ + 1]
    /\ UNCHANGED <<geo, geo_call, pl_vars, tr_vars, ext_vars, qp_vars, fit_vars>>

GeometryNext ==
    \/ NewTracerGeometry
    \/ G_AngToEarth
    \/ G_AngBetweenPlanes
    \/ G_CriticalDensityKpc
    \/ G_CriticalDensityArcsec
    \/ G_ScalingFactor
    \/ G_Repeat

(***************************************************************************)
(* The property scenario: a caller constructs a Plane or a PlaneSlice of   *)
(* autolens/lens/plane.py and reads one of its properties.                 *)
(***************************************************************************)
PropertyGalaxies ==
    {Galaxy(1, 1, 0), Galaxy(1, 0, 1), Galaxy(NoRedshift, 2, 1), Galaxy(NoRedshift, 0, 1),
     PixelizedGalaxy(1, "Rectangular", "Constant"),
     PixelizedGalaxy(NoRedshift, "AdaptiveMagnification", "Weighted")}

PropertyGalaxyLists == SeqsUpTo(PropertyGalaxies, MaxGalaxies)

Planck15 == CHOOSE c \in Cosmologies : c.name = "Planck15"

NoPropertyCall == [cls |-> "none", property |-> "none"]

PropertyInit ==
    /\ qp_plane = None
    /\ qp_call = NoPropertyCall
    /\ qp_res = PropertyValue(None, 0)

\* Plane(galaxies, grid_stack, compute_deflections=False, cosmology=Planck15)
Q_NewPlane ==
    /\ qp_call.cls = "none"
    /\ \E galaxies \in PropertyGalaxyLists :
          LET res == Plane__init__(galaxies, GridBundle(1, 1), None, FALSE, Planck15)
          IN  /\ qp_plane' = res.plane
              /\ qp_call' = [cls |-> "Plane", property |-> "__init__"]
              /\ qp_res' = PropertyRaised(res.exc, 0)
    /\ UNCHANGED <<pl_vars, tr_vars, ext_vars, ge_vars, fit_vars>>

\* PlaneSlice(galaxies, grid_stack, redshift, compute_deflections=False,
\*            cosmology=Planck15)
Q_NewPlaneSlice ==
    /\ qp_call.cls = "none"
    /\ \E galaxies \in PropertyGalaxyLists, redshift \in PlaneSliceRedshifts :
          LET res == PlaneSlice__init__(galaxies, GridBundle(1, 1), redshift, None, FALSE,
                                        Planck15)
          IN  /\ qp_plane' = res.plane
              /\ qp_call' = [cls |-> "PlaneSlice", property |-> "__init__"]
              /\ qp_res' = PropertyRaised(res.exc, 0)
    /\ UNCHANGED <<pl_vars, tr_vars, ext_vars, ge_vars, fit_vars>>

\* a plane has been constructed and no property has been read yet
CanReadProperty == qp_call.property = "__init__" /\ ~ IsNone(qp_plane)

\* plane.arcsec_per_kpc_proper
Q_ArcsecPerKpcProper ==
    /\ CanReadProperty
    /\ qp_call' = [qp_call EXCEPT !.property = "arcsec_per_kpc_proper"]
    /\ qp_res' = plane_arcsec_per_kpc_proper(Get(qp_plane))
    /\ UNCHANGED <<qp_plane, pl_vars, tr_vars, ext_vars, ge_vars, fit_vars>>

\* plane.kpc_per_arcsec_proper
Q_KpcPerArcsecProper ==
    /\ CanReadProperty
    /\ qp_call' = [qp_call EXCEPT !.property = "kpc_per_arcsec_proper"]
    /\ qp_res' = plane_kpc_per_arcsec_proper(Get(qp_plane))
    /\ UNCHANGED <<qp_plane, pl_vars, tr_vars, ext_vars, ge_vars, fit_vars>>

\* plane.angular_diameter_distance_to_earth
Q_AngularDiameterDistanceToEarth ==
    /\ CanReadProperty
    /\ qp_call' = [qp_call EXCEPT !.property = "angular_diameter_distance_to_earth"]
    /\ qp_res' = plane_angular_diameter_distance_to_earth(Get(qp_plane))
    /\ UNCHANGED <<qp_plane, pl_vars, tr_vars, ext_vars, ge_vars, fit_vars>>

\* plane.cosmic_average_mass_density_arcsec
Q_CosmicAverageMassDensityArcsec ==
    /\ CanReadProperty
    /\ qp_call' = [qp_call EXCEPT !.property = "cosmic_average_mass_density_arcsec"]
    /\ qp_res' = plane_cosmic_average_mass_density_arcsec(Get(qp_plane))
    /\ UNCHANGED <<qp_plane, pl_vars, tr_vars, ext_vars, ge_vars, fit_vars>>

\* plane.einstein_radius_kpc
Q_EinsteinRadiusKpc ==
    /\ CanReadProperty
    /\ qp_call' = [qp_call EXCEPT !.property = "einstein_radius_kpc"]
    /\ qp_res' = plane_einstein_radius_kpc(Get(qp_plane))
    /\ UNCHANGED <<qp_plane, pl_vars, tr_vars, ext_vars, ge_vars, fit_vars>>

\* plane.mapper
Q_Mapper ==
    /\ CanReadProperty
    /\ qp_call' = [qp_call EXCEPT !.property = "mapper"]
    /\ qp_res' = mapper(Get(qp_plane))
    /\ UNCHANGED <<qp_plane, pl_vars, tr_vars, ext_vars, ge_vars, fit_vars>>

\* plane.regularization
Q_Regularization ==
    /\ CanReadProperty
    /\ qp_call' = [qp_call EXCEPT !.property = "regularization"]
    /\ qp_res' = regularization(Get(qp_plane))
    /\ UNCHANGED <<qp_plane, pl_vars, tr_vars, ext_vars, ge_vars, fit_vars>>

PropertyNext ==
    \/ Q_NewPlane
    \/ Q_NewPlaneSlice
    \/ Q_ArcsecPerKpcProper
    \/ Q_KpcPerArcsecProper
    \/ Q_AngularDiameterDistanceToEarth
    \/ Q_CosmicAverageMassDensityArcsec
    \/ Q_EinsteinRadiusKpc
    \/ Q_Mapper
    \/ Q_Regularization

(***************************************************************************)
(* The fit scenario: a caller constructs a FitPositionsImage, a FitFluxes  *)
(* or a FitPositionsSourceMaxSeparation for a tracer and a list of         *)
(* positions, and asks a source-plane fit for its maximum separation.      *)
(***************************************************************************)
\* (kappa, gamma) of the lenses: no lens, a lens with shear, a mass sheet
Lenses == {<<0, 0>>, <<1, 2>>, <<3, 0>>}

Centre0 == <<R(2), R(4)>>
Centre1 == <<R(-4), R(2)>>

SourceProfileLists ==
    {<<>>,
     <<PointSourceFlux("point_0", Centre0, R(2))>>,
     <<PointSource("point_0", Centre0)>>,
     <<PointSource("point_0", Centre0), PointSourceFlux("point_1", Centre1, R(3))>>}

FitTracers ==
    {[planes |-> <<FitPlane(l[1], l[2], <<>>), FitPlane(0, 0, profiles)>>] :
        l \in Lenses, profiles \in SourceProfileLists}
    \cup
    {[planes |-> <<FitPlane(l[1], l[2], <<>>),
                   FitPlane(m[1], m[2], <<PointSourceFlux("point_1", Centre1, R(3))>>),
                   FitPlane(0, 0, <<PointSourceFlux("point_0", Centre0, R(2))>>)>>] :
        l \in Lenses, m \in Lenses}

ProfileNames == {"point_0", "point_1", "point_2"}

\* positions on a line and positions on the corners of a rectangle
CollinearPoints == {<<R(0), R(0)>>, <<R(0), R(1)>>, <<R(0), R(3)>>}
RectanglePoints == {<<R(0), R(0)>>, <<R(0), R(3)>>, <<R(4), R(0)>>, <<R(4), R(3)>>}

PositionLists ==
    (SeqsUpTo(CollinearPoints, MaxPositions) \cup SeqsUpTo(RectanglePoints, MaxPositions))
        \ {<<>>}

Thresholds == {R(0), R(2), R(3), R(5), R(6)}

\* the observed fluxes and the noise map: one value per position
DataFor(positions) == [i \in 1..Len(positions) |-> One]

NoFitCall == [cls |-> "none", name |-> "", tracer |-> [planes |-> <<>>], positions |-> <<>>]

NoFitQuery == [method |-> "none", threshold |-> Zero, separation |-> None, within |-> None]

FitInit ==
    /\ fit_call = NoFitCall
    /\ fit_res = FitRaised("none", <<>>)
    /\ fit_query = NoFitQuery

\* FitPositionsImage(name, positions, noise_map, tracer, positions_solver)
F_NewFitPositionsImage ==
    /\ fit_call.cls = "none"
    /\ \E name \in ProfileNames, positions \in PositionLists, tracer \in FitTracers :
          /\ fit_call' = [cls |-> "FitPositionsImage", name |-> name, tracer |-> tracer,
                          positions |-> positions]
          /\ fit_res' = FitPositionsImage__init__(name, positions, DataFor(positions), tracer,
                                                  "PositionsSolver")
    /\ UNCHANGED <<fit_query, pl_vars, tr_vars, ext_vars, ge_vars, qp_vars>>

\* FitFluxes(name, fluxes, noise_map, positions, tracer)
F_NewFitFluxes ==
    /\ fit_call.cls = "none"
    /\ \E name \in ProfileNames, positions \in PositionLists, tracer \in FitTracers :
          /\ fit_call' = [cls |-> "FitFluxes", name |-> name, tracer |-> tracer,
                          positions |-> positions]
          /\ fit_res' = FitFluxes__init__(name, DataFor(positions), DataFor(positions),
                                          positions, tracer)
    /\ UNCHANGED <<fit_query, pl_vars, tr_vars, ext_vars, ge_vars, qp_vars>>

\* FitPositionsSourceMaxSeparation(positions, noise_map, tracer)
F_NewFitPositionsSourceMaxSeparation ==
    /\ fit_call.cls = "none"
    /\ \E positions \in PositionLists, tracer \in FitTracers :
          /\ fit_call' = [cls |-> "FitPositionsSourceMaxSeparation", name |-> "",
                          tracer |-> tracer, positions |-> positions]
          /\ fit_res' = AbstractFitPositionsSourcePlane__init__(positions, DataFor(positions),
                                                                tracer)
    /\ UNCHANGED <<fit_query, pl_vars, tr_vars, ext_vars, ge_vars, qp_vars>>

\* a source-plane fit has been constructed and not been asked anything yet
CanAskFit ==
    /\ fit_call.cls = "FitPositionsSourceMaxSeparation"
    /\ ~ IsNone(fit_res.fit)
    /\ fit_query.method = "none"

\* fit.max_separation_of_source_plane_positions
F_MaxSeparation ==
    /\ CanAskFit
    /\ fit_query' = [NoFitQuery EXCEPT
                        !.method = "max_separation_of_source_plane_positions",
                        !.separation =
                            Some(max_separation_of_source_plane_positions(Get(fit_res.fit)))]
    /\ UNCHANGED <<fit_call, fit_res, pl_vars, tr_vars, ext_vars, ge_vars, qp_vars>>

\* fit.max_separation_within_threshold(threshold)
F_MaxSeparationWithinThreshold ==
    /\ CanAskFit
    /\ \E threshold \in Thresholds :
          fit_query' = [NoFitQuery EXCEPT
                           !.method = "max_separation_within_threshold",
                           !.threshold = threshold,
                           !.within = Some(max_separation_within_threshold(Get(fit_res.fit),
                                                                           threshold))]
    /\ UNCHANGED <<fit_call, fit_res, pl_vars, tr_vars, ext_vars, ge_vars, qp_vars>>

FitNext ==
    \/ F_NewFitPositionsImage
    \/ F_NewFitFluxes
    \/ F_NewFitPositionsSourceMaxSeparation
    \/ F_MaxSeparation
    \/ F_MaxSeparationWithinThreshold

(***************************************************************************)
(* The observation scenario: a caller builds a MultiTracer and a Plane of  *)
(* autolens/lens/plane.py from the same galaxies and grids and then makes  *)
(* up to MaxQueries calls on them, in any order and with repetitions.      *)
(***************************************************************************)
ObservedGalaxies ==
    {Galaxy(1, 1, 1), Galaxy(2, 2, 1), PixelizedGalaxy(2, "Rectangular", "Constant"),
     PixelizedGalaxy(1, "Voronoi", "Constant")}

ObservedGalaxyLists == SeqsUpTo(ObservedGalaxies, 2)

ObservedGrids == {GridBundle(n, 1) : n \in 1..MaxPix}

Query(name, plane_index) == [name |-> name, plane_index |-> plane_index]

Queries ==
    {Query(name, 0) : name \in {"generate_image_of_galaxy_light_profiles",
                                "generate_blurring_image_of_galaxy_light_profiles",
                                "generate_pixelization_matrices_of_galaxies",
                                "mapper", "regularization"}}
       \cup {Query("trace_to_next_plane", k) : k \in 0..1}

NoObjects == [tracer |-> None, plane |-> None]

NoQuery == [query |-> Query("none", 0), exc |-> "none", value |-> None, n |-> 0,
            repeated |-> FALSE]

ObserveInit ==
    /\ ob = NoObjects
    /\ ob_first = [q \in Queries |-> None]
    /\ ob_call = NoQuery

\* MultiTracer(galaxies, image_plane_grids, cosmology) and
\* Plane(galaxies, grid_stack, compute_deflections=True)
O_New ==
    /\ ob_call.query.name = "none"
    /\ \E galaxies \in ObservedGalaxyLists, grids \in ObservedGrids :
          ob' = [tracer |-> MultiTracer__init__(galaxies, grids, Planck15).tracer,
                 plane |-> Plane__init__(galaxies, grids, None, TRUE, Planck15).plane]
    /\ ob_call' = [NoQuery EXCEPT !.query = Query("__init__", 0)]
    /\ UNCHANGED <<ob_first, pl_vars, tr_vars, ge_vars, qp_vars, fit_vars, cc_vars, un_vars, an_vars, hy_vars>>

\* the caller holds the object the call is made on and may make one more call
CanObserve(on_tracer, plane_index) ==
    /\ ob_call.query.name # "none"
    /\ ob_call.n < MaxQueries
    /\ IF on_tracer
       THEN ~ IsNone(ob.tracer) /\ plane_index < Len(Get(ob.tracer).planes)
       ELSE ~ IsNone(ob.plane)

\* the record of a call and of its outcome
Observing(query) ==
    LET outcome == Observe(ob, query)
    IN  [query |-> query, exc |-> outcome.exc, value |-> outcome.value, n |-> ob_call.n + 1,
         repeated |-> ~ IsNone(ob_first[query])]

\* the first outcomes once the call has been made
FirstOutcomes(query) ==
    IF IsNone(ob_first[query])
    THEN [ob_first EXCEPT ![query] = Some([exc |-> Observe(ob, query).exc,
                                           value |-> Observe(ob, query).value])]
    ELSE ob_first

\* tracer.generate_image_of_galaxy_light_profiles()
O_Image ==
    /\ CanObserve(TRUE, 0)
    /\ LET query == Query("generate_image_of_galaxy_light_profiles", 0)
       IN  /\ ob' = Observe(ob, query).objects
           /\ ob_call' = Observing(query)
           /\ ob_first' = FirstOutcomes(query)
    /\ UNCHANGED <<pl_vars, tr_vars, ge_vars, qp_vars, fit_vars, cc_vars, un_vars, an_vars, hy_vars>>

\* tracer.generate_blurring_image_of_galaxy_light_profiles()
O_BlurringImage ==
    /\ CanObserve(TRUE, 0)
    /\ LET query == Query("generate_blurring_image_of_galaxy_light_profiles", 0)
       IN  /\ ob' = Observe(ob, query).objects
           /\ ob_call' = Observing(query)
           /\ ob_first' = FirstOutcomes(query)
    /\ UNCHANGED <<pl_vars, tr_vars, ge_vars, qp_vars, fit_vars, cc_vars, un_vars, an_vars, hy_vars>>

\* tracer.generate_pixelization_matrices_of_galaxies(sparse_mask)
O_PixelizationMatrices ==
    /\ CanObserve(TRUE, 0)
    /\ LET query == Query("generate_pixelization_matrices_of_galaxies", 0)
       IN  /\ ob' = Observe(ob, query).objects
           /\ ob_call' = Observing(query)
           /\ ob_first' = FirstOutcomes(query)
    /\ UNCHANGED <<pl_vars, tr_vars, ge_vars, qp_vars, fit_vars, cc_vars, un_vars, an_vars, hy_vars>>

\* tracer.planes[plane_index].trace_to_next_plane()
O_TraceToNextPlane ==
    /\ \E plane_index \in 0..1 :
          /\ CanObserve(TRUE, plane_index)
          /\ LET query == Query("trace_to_next_plane", plane_index)
             IN  /\ ob' = Observe(ob, query).objects
                 /\ ob_call' = Observing(query)
                 /\ ob_first' = FirstOutcomes(query)
    /\ UNCHANGED <<pl_vars, tr_vars, ge_vars, qp_vars, fit_vars, cc_vars, un_vars, an_vars, hy_vars>>

\* plane.mapper
O_Mapper ==
    /\ CanObserve(FALSE, 0)
    /\ LET query == Query("mapper", 0)
       IN  /\ ob' = Observe(ob, query).objects
           /\ ob_call' = Observing(query)
           /\ ob_first' = FirstOutcomes(query)
    /\ UNCHANGED <<pl_vars, tr_vars, ge_vars, qp_vars, fit_vars, cc_vars, un_vars, an_vars, hy_vars>>

\* plane.regularization
O_Regularization ==
    /\ CanObserve(FALSE, 0)
    /\ LET query == Query("regularization", 0)
       IN  /\ ob' = Observe(ob, query).objects
           /\ ob_call' = Observing(query)
           /\ ob_first' = FirstOutcomes(query)
    /\ UNCHANGED <<pl_vars, tr_vars, ge_vars, qp_vars, fit_vars, cc_vars, un_vars, an_vars, hy_vars>>

ObserveNext ==
    \/ O_New
    \/ O_Image
    \/ O_BlurringImage
    \/ O_PixelizationMatrices
    \/ O_TraceToNextPlane
    \/ O_Mapper
    \/ O_Regularization

(***************************************************************************)
(* The concurrency scenario: two constructor calls, each a MultiTracer of  *)
(* ray_tracing.py or a Plane of autolens/lens/plane.py, run at the same    *)
(* time on the same list of galaxies, the same grid bundle and the same    *)
(* cosmology.  A step is one statement of a constructor; the steps of the  *)
(* two calls interleave in any order.                                      *)
(***************************************************************************)
Callers == {1, 2}

SharedGalaxies == {Galaxy(2, 2, 1), Galaxy(1, 1, 1), Galaxy(1, 0, 1)}

SharedGalaxyLists == SeqsUpTo(SharedGalaxies, MaxGalaxies - 1)

Given(galaxies, grids, cosmology) ==
    [galaxies |-> galaxies, image_plane_grids |-> grids, cosmology |-> cosmology]

NoConstruction == [cls |-> "none", pc |-> "idle", exc |-> "none", self |-> NewMultiTracer]

ConcurrentInit ==
    /\ cc_in = [given |-> Given(<<>>, GridBundle(1, 1), Planck15), galaxies |-> <<>>,
                image_plane_grids |-> GridBundle(1, 1), cosmology |-> Planck15]
    /\ cc = [c \in Callers |-> NoConstruction]

\* the first statement of a constructor
FirstStatement(cls) == IF cls = "MultiTracer" THEN "sort" ELSE "checks"

\* the two callers are handed the shared objects and start their constructor calls
K_Start ==
    /\ \A c \in Callers : cc[c].pc = "idle"
    /\ \E galaxies \in SharedGalaxyLists, grids \in ObservedGrids,
          cls \in [Callers -> {"MultiTracer", "Plane"}] :
          /\ cc_in' = [given |-> Given(galaxies, grids, Planck15), galaxies |-> galaxies,
                       image_plane_grids |-> grids, cosmology |-> Planck15]
          /\ cc' = [c \in Callers |->
                       [NoConstruction EXCEPT !.cls = cls[c], !.pc = FirstStatement(cls[c])]]
    /\ UNCHANGED <<pl_vars, tr_vars, ge_vars, qp_vars, fit_vars, ob_vars, un_vars, an_vars, hy_vars>>

\* mutant: the galaxies are sorted in place, galaxies.sort(key=...)
K_Sort_in_place(c) ==
    /\ cc[c].pc = "sort"
    /\ IF sort_raises(cc_in.galaxies)
       THEN /\ cc' = [cc EXCEPT ![c].exc = "TypeError", ![c].pc = "done"]
            /\ UNCHANGED cc_in
       ELSE /\ cc' = [cc EXCEPT ![c].self.galaxies_redshift_order = sorted(cc_in.galaxies),
                                ![c].pc = "redshifts"]
            /\ cc_in' = [cc_in EXCEPT !.galaxies = sorted(cc_in.galaxies)]
    /\ UNCHANGED <<pl_vars, tr_vars, ge_vars, qp_vars, fit_vars, ob_vars, un_vars, an_vars, hy_vars>>

\* ray_tracing.py line 78: sorted() reads the shared list and returns a new one
K_Sort(c) ==
    /\ cc[c].pc = "sort"
    /\ IF sort_raises(cc_in.galaxies)
       THEN cc' = [cc EXCEPT ![c].exc = "TypeError", ![c].pc = "done"]
       ELSE cc' = [cc EXCEPT ![c].self.galaxies_redshift_order = sorted(cc_in.galaxies),
                            ![c].pc = "redshifts"]
    /\ UNCHANGED <<cc_in, pl_vars, tr_vars, ge_vars, qp_vars, fit_vars, ob_vars, un_vars, an_vars, hy_vars>>

\* ray_tracing.py lines 83-85
K_PlanesRedshiftOrder(c) ==
    /\ cc[c].pc = "redshifts"
    /\ cc' = [cc EXCEPT ![c].self.planes_redshift_order =
                            planes_redshift_order_of(cc[c].self.galaxies_redshift_order),
                        ![c].pc = "geometry"]
    /\ UNCHANGED <<cc_in, pl_vars, tr_vars, ge_vars, qp_vars, fit_vars, ob_vars, un_vars, an_vars, hy_vars>>

\* ray_tracing.py line 86: reads the shared cosmology
K_Geometry(c) ==
    /\ cc[c].pc = "geometry"
    /\ LET res == TracerGeometry__init__(cc[c].self.planes_redshift_order, cc_in.cosmology)
       IN  IF res.exc # "none"
           THEN cc' = [cc EXCEPT ![c].exc = res.exc, ![c].pc = "done"]
           ELSE cc' = [cc EXCEPT ![c].self.geometry = res.geometry, ![c].pc = "group"]
    /\ UNCHANGED <<cc_in, pl_vars, tr_vars, ge_vars, qp_vars, fit_vars, ob_vars, un_vars, an_vars, hy_vars>>

\* ray_tracing.py lines 90-98
K_PlanesGalaxies(c) ==
    /\ cc[c].pc = "group"
    /\ cc' = [cc EXCEPT ![c].self.planes_galaxies =
                            planes_galaxies_of(cc[c].self.galaxies_redshift_order,
                                               cc[c].self.planes_redshift_order),
                        ![c].pc = "planes"]
    /\ UNCHANGED <<cc_in, pl_vars, tr_vars, ge_vars, qp_vars, fit_vars, ob_vars, un_vars, an_vars, hy_vars>>

\* ray_tracing.py lines 100-128: one pass of the loop over plane_index, which reads the
\* shared grid bundle and the galaxies of the plane, or the end of the loop
K_Plane(c) ==
    /\ cc[c].pc = "planes"
    /\ LET self == cc[c].self
           plane_index == Len(self.planes)
           n_planes == Len(self.planes_redshift_order)
       IN  IF plane_index \notin plane_indices(self.planes_redshift_order)
           THEN cc' = [cc EXCEPT ![c].pc = "done"]
           ELSE LET new_grid == new_grid_after(cc_in.image_plane_grids, self.planes,
                                               Get(self.geometry), plane_index,
                                               Cardinality(previous_plane_indices(plane_index)))
                    res == RT_Plane__init__(PyIndex(self.planes_galaxies, plane_index),
                                            new_grid,
                                            compute_deflections_of(plane_index, n_planes)
                                               = "True")
                IN  cc' = [cc EXCEPT ![c].self.planes = Append(@, Get(res.plane))]
    /\ UNCHANGED <<cc_in, pl_vars, tr_vars, ge_vars, qp_vars, fit_vars, ob_vars, un_vars, an_vars, hy_vars>>

\* plane.py lines 434-441: the checks of Plane.__init__ on the shared list
K_PlaneChecks(c) ==
    /\ cc[c].pc = "checks"
    /\ LET res == Plane__init__(cc_in.galaxies, cc_in.image_plane_grids, None, TRUE,
                                cc_in.cosmology)
       IN  IF res.exc # "none"
           THEN cc' = [cc EXCEPT ![c].exc = res.exc, ![c].pc = "done"]
           ELSE cc' = [cc EXCEPT ![c].pc = "fields"]
    /\ UNCHANGED <<cc_in, pl_vars, tr_vars, ge_vars, qp_vars, fit_vars, ob_vars, un_vars, an_vars, hy_vars>>

\* plane.py lines 443-444 and 271-313: AbstractGriddedPlane.__init__ keeps references to
\* the shared objects and computes the deflections from them
K_PlaneFields(c) ==
    /\ cc[c].pc = "fields"
    /\ LET res == AbstractGriddedPlane__init__(cc_in.galaxies[1].redshift, cc_in.galaxies,
                                               cc_in.image_plane_grids, None, TRUE,
                                               cc_in.cosmology)
       IN  cc' = [cc EXCEPT ![c].self = Get(res.plane), ![c].pc = "done"]
    /\ UNCHANGED <<cc_in, pl_vars, tr_vars, ge_vars, qp_vars, fit_vars, ob_vars, un_vars, an_vars, hy_vars>>

ConcurrentNext ==
    \/ K_Start
    \/ \E c \in Callers : K_Sort(c)
    \/ \E c \in Callers : K_PlanesRedshiftOrder(c)
    \/ \E c \in Callers : K_Geometry(c)
    \/ \E c \in Callers : K_PlanesGalaxies(c)
    \/ \E c \in Callers : K_Plane(c)
    \/ \E c \in Callers : K_PlaneChecks(c)
    \/ \E c \in Callers : K_PlaneFields(c)

(***************************************************************************)
(* The units scenario: dimension values (Length, Luminosity, Mass and      *)
(* their ratios) and a profile holding some, and their conversions between *)
(* units.  The values are Python floats: binary floating-point numbers     *)
(* with a significand of MantissaBits bits, every product and quotient     *)
(* rounded to the nearest such number, ties to even.                       *)
(***************************************************************************)
RECURSIVE RoundPositive(_, _, _, _)
\* the float nearest to the positive rational n / d, times up / down: n / d is doubled
\* or halved until its integer part has MantissaBits bits, then rounded to an integer
RoundPositive(n, d, up, down) ==
    IF n < (2 ^ (MantissaBits - 1)) * d THEN RoundPositive(2 * n, d, up, 2 * down)
    ELSE IF n >= (2 ^ MantissaBits) * d THEN RoundPositive(n, 2 * d, 2 * up, down)
    ELSE IF 2 * (n % d) > d \/ (2 * (n % d) = d /\ (n \div d) % 2 = 1)
    THEN Norm(((n \div d) + 1) * up, down)
    ELSE Norm((n \div d) * up, down)

\* the float nearest to the rational q
Round(q) ==
    IF q[1] = 0 THEN q
    ELSE IF q[1] < 0 THEN RSub(R(0), RoundPositive(-q[1], q[2], 1, 1))
    ELSE RoundPositive(q[1], q[2], 1, 1)

\* a * b, a / b and a ** power on floats
FloatMul(a, b) == Round(RMul(a, b))
FloatDiv(a, b) == Round(RDiv(a, b))
FloatPow(a, power) == Round(<<a[1] ^ power, a[2] ^ power>>)

\* mutant: the conversion back multiplies as the conversion forward does
Scaled_forward_only(value, factor, power, forward) ==
    IF power > 0
    THEN FloatMul(value, FloatPow(factor, power))
    ELSE FloatDiv(value, FloatPow(factor, -power))

\* a value of the given power of a unit taken to the other unit: forward multiplies by
\* factor ** power (divides for a unit in the denominator), backward undoes it
Scaled(value, factor, power, forward) ==
    IF (power > 0) = forward
    THEN FloatMul(value, FloatPow(factor, Abs(power)))
    ELSE FloatDiv(value, FloatPow(factor, Abs(power)))

\* mutant: no check that the factor was given: the arithmetic on None fails
convert_unit_unchecked(value, unit_current, unit_new, units, power, factor) ==
    IF unit_current = unit_new THEN Returned(value)
    ELSE IF IsNone(factor) THEN Failed("TypeError")
    ELSE IF unit_current = units[1] /\ unit_new = units[2]
    THEN Returned(Scaled(value, Get(factor), power, TRUE))
    ELSE IF unit_current = units[2] /\ unit_new = units[1]
    THEN Returned(Scaled(value, Get(factor), power, FALSE))
    ELSE Failed("UnitsException")

\* the conversion of one unit of a value: units is the pair the factor converts between
convert_unit(value, unit_current, unit_new, units, power, factor) ==
    IF unit_current # unit_new /\ IsNone(factor) THEN Failed("UnitsException")
    ELSE IF unit_current = unit_new THEN Returned(value)
    ELSE IF unit_current = units[1] /\ unit_new = units[2]
    THEN Returned(Scaled(value, Get(factor), power, TRUE))
    ELSE IF unit_current = units[2] /\ unit_new = units[1]
    THEN Returned(Scaled(value, Get(factor), power, FALSE))
    ELSE Failed("UnitsException")

LengthUnits == <<"arcsec", "kpc">>
LuminosityUnits == <<"eps", "counts">>
MassUnits == <<"angular", "solMass">>

DimensionKinds ==
    {"Length", "Luminosity", "Mass", "MassOverLuminosity", "MassOverLength2",
     "MassOverLength3"}

\* the power at which a kind of value carries each unit; 0 where it does not carry it
Powers(kind) ==
    CASE kind = "Length" -> [length |-> 1, luminosity |-> 0, mass |-> 0]
      [] kind = "Luminosity" -> [length |-> 0, luminosity |-> 1, mass |-> 0]
      [] kind = "Mass" -> [length |-> 0, luminosity |-> 0, mass |-> 1]
      [] kind = "MassOverLuminosity" -> [length |-> 0, luminosity |-> -1, mass |-> 1]
      [] kind = "MassOverLength2" -> [length |-> -2, luminosity |-> 0, mass |-> 1]
      [] kind = "MassOverLength3" -> [length |-> -3, luminosity |-> 0, mass |-> 1]

\* the units a call names, a unit the call does not name being None
Units(unit_length, unit_luminosity, unit_mass) ==
    [length |-> unit_length, luminosity |-> unit_luminosity, mass |-> unit_mass]

\* the factors a call gives (kpc_per_arcsec, exposure_time, critical_surface_density),
\* a factor the call does not give being None
Factors(per_length, per_luminosity, per_mass) ==
    [length |-> per_length, luminosity |-> per_luminosity, mass |-> per_mass]

UnitPairs == [length |-> LengthUnits, luminosity |-> LuminosityUnits, mass |-> MassUnits]

\* dim.Length(value, unit_length) and the like: a float with its units
Dimension(kind, value, units) == [kind |-> kind, value |-> value, units |-> units]

\* the unit a call asks for: the one it names, or the current one
Asked(units_new, units, which) ==
    IF IsNone(units_new[which]) THEN units[which] ELSE Get(units_new[which])

\* <kind>.convert(unit_..., factor...): the mass unit first, then the length or
\* luminosity unit; a unit the kind does not carry is not looked at
convert(d, units_new, factors) ==
    LET powers == Powers(d.kind)
        step(res, which) ==
           IF res.exc # "none" \/ powers[which] = 0 THEN res
           ELSE convert_unit(Get(res.value), d.units[which],
                             Asked(units_new, d.units, which), UnitPairs[which],
                             powers[which], factors[which])
        res == step(step(step(Returned(d.value), "mass"), "length"), "luminosity")
    IN  IF res.exc # "none" THEN Failed(res.exc)
        ELSE Returned(Dimension(d.kind, Get(res.value),
                                [which \in DOMAIN d.units |->
                                    IF powers[which] = 0 THEN d.units[which]
                                    ELSE Asked(units_new, d.units, which)]))

\* the attributes of the profile of the tests that are dimension values
ProfileAttributes == {"length", "luminosity", "mass", "mass_over_luminosity"}

\* profile.new_profile_with_units_converted(unit_..., factor...): a new profile whose
\* dimension values are converted; the first conversion that raises ends the call
new_profile_with_units_converted(profile, units_new, factors) ==
    LET raised == {a \in ProfileAttributes :
                      convert(profile[a], units_new, factors).exc # "none"}
    IN  IF raised # {}
        THEN Failed(convert(profile[CHOOSE a \in raised : TRUE], units_new, factors).exc)
        ELSE Returned([a \in DOMAIN profile |->
                          IF a \in ProfileAttributes
                          THEN Get(convert(profile[a], units_new, factors).value)
                          ELSE profile[a]])

\* the floats values are made of, and the conversion factors
UnitValues == {R(5), R(7)}
UnitFactors == {R(2), R(5)}

\* the unit names a call may pass for a unit
UnitNames(which) == {Some(UnitPairs[which][1]), Some(UnitPairs[which][2]), Some("lol")}

OptionalFactors == {None} \cup {Some(f) : f \in UnitFactors}

\* the argument lists of value.convert for a value of the given powers: a unit name
\* for every unit the value carries, and a factor or none for each
Conversions(powers) ==
    {[units |-> Units(l[1], u[1], m[1]), factors |-> Factors(l[2], u[2], m[2])] :
        l \in IF powers.length = 0 THEN {<<None, None>>}
              ELSE UnitNames("length") \X OptionalFactors,
        u \in IF powers.luminosity = 0 THEN {<<None, None>>}
              ELSE UnitNames("luminosity") \X OptionalFactors,
        m \in IF powers.mass = 0 THEN {<<None, None>>}
              ELSE UnitNames("mass") \X OptionalFactors}

\* the argument lists of new_profile_with_units_converted: one unit is named, with its
\* factor or without
ProfileConversions ==
    UNION {{[units |-> [w \in DOMAIN UnitPairs |-> IF w = which THEN name ELSE None],
             factors |-> [w \in DOMAIN UnitPairs |-> IF w = which THEN factor ELSE None]] :
               name \in UnitNames(which), factor \in OptionalFactors} :
           which \in DOMAIN UnitPairs}

StartUnits == [length |-> "arcsec", luminosity |-> "eps", mass |-> "angular"]

\* whether a call asks for a carried unit other than the current one without its factor
LacksFactor(powers, units, c) ==
    \E which \in DOMAIN UnitPairs :
       /\ powers[which] # 0
       /\ Asked(c.units, units, which) # units[which]
       /\ IsNone(c.factors[which])

\* whether a call asks for a carried unit under a name that is not a unit
AsksUnknown(powers, units, c) ==
    \E which \in DOMAIN UnitPairs :
       /\ powers[which] # 0
       /\ Asked(c.units, units, which) \notin {UnitPairs[which][1], UnitPairs[which][2]}

\* the factors of a call of the units that the call changes
FactorsUsed(units, units_after, c) ==
    [which \in DOMAIN UnitPairs |->
        IF units[which] = units_after[which] THEN None ELSE c.factors[which]]

NoDimension ==
    [held |-> None, made |-> None, leg |-> "none", there |-> None, back |-> None]

NoProfile == [held |-> None, leg |-> "none"]

NoUnitCall ==
    [on |-> "none", exc |-> "none", before |-> None, lacks_factor |-> FALSE,
     asks_unknown |-> FALSE, same_units |-> FALSE]

UnitCall(on, exc, before, powers, units, c) ==
    [on |-> on, exc |-> exc, before |-> Some(before),
     lacks_factor |-> LacksFactor(powers, units, c),
     asks_unknown |-> AsksUnknown(powers, units, c),
     same_units |-> \A which \in DOMAIN UnitPairs :
                       powers[which] # 0 => Asked(c.units, units, which) = units[which]]

UnitsInit ==
    /\ un = NoDimension
    /\ un_profile = NoProfile
    /\ un_call = NoUnitCall

\* dim.Length(value=...), dim.MassOverLength2(value=..., unit_mass=...) and the like;
\* one object is made and followed
U_New ==
    /\ IsNone(un.held) /\ IsNone(un_profile.held)
    /\ \E kind \in DimensionKinds, value \in UnitValues,
          l \in {1, 2}, u \in {1, 2}, m \in {1, 2} :
          LET powers == Powers(kind)
              units == [length |-> LengthUnits[IF powers.length = 0 THEN 1 ELSE l],
                        luminosity |->
                           LuminosityUnits[IF powers.luminosity = 0 THEN 1 ELSE u],
                        mass |-> MassUnits[IF powers.mass = 0 THEN 1 ELSE m]]
          IN  un' = [NoDimension EXCEPT !.held = Some(Dimension(kind, value, units)),
                                        !.made = Some(Dimension(kind, value, units)),
                                        !.leg = "made"]
    /\ un_profile' = NoProfile
    /\ un_call' = NoUnitCall
    /\ UNCHANGED <<pl_vars, tr_vars, ge_vars, qp_vars, fit_vars, ob_vars, cc_vars, an_vars, hy_vars>>

\* value = value.convert(...): the value held is replaced by the one returned, and stays
\* when the call raises.  At most two conversions that change a unit are followed.
U_Convert ==
    /\ ~IsNone(un.held)
    /\ \E c \in Conversions(Powers(Get(un.held).kind)) :
       \E res \in {convert(Get(un.held), c.units, c.factors)} :
          LET d == Get(un.held)
              changes == res.exc = "none" /\ Get(res.value).units # d.units
              used == Some(FactorsUsed(d.units, Get(res.value).units, c))
          IN  /\ changes => un.leg # "back"
              /\ un_call' = UnitCall("value", res.exc, d, Powers(d.kind), d.units, c)
              /\ un' = IF res.exc # "none" THEN un
                       ELSE IF ~changes THEN [un EXCEPT !.held = res.value]
                       ELSE IF un.leg = "made"
                       THEN [un EXCEPT !.held = res.value, !.leg = "there",
                                       !.there = used]
                       ELSE [un EXCEPT !.held = res.value, !.leg = "back",
                                       !.back = used]
    /\ UNCHANGED <<un_profile, pl_vars, tr_vars, ge_vars, qp_vars, fit_vars, ob_vars, cc_vars, an_vars, hy_vars>>

\* MockDimensionsProfile(length=dim.Length(...), luminosity=..., mass=..., ...)
U_NewProfile ==
    /\ IsNone(un.held) /\ IsNone(un_profile.held)
    /\ \E value \in UnitValues :
          un_profile' =
             [held |-> Some([param_float |-> R(2),
                             length |-> Dimension("Length", value, StartUnits),
                             luminosity |-> Dimension("Luminosity", value, StartUnits),
                             mass |-> Dimension("Mass", value, StartUnits),
                             mass_over_luminosity |->
                                Dimension("MassOverLuminosity", value, StartUnits)]),
              leg |-> "made"]
    /\ un' = NoDimension
    /\ un_call' = NoUnitCall
    /\ UNCHANGED <<pl_vars, tr_vars, ge_vars, qp_vars, fit_vars, ob_vars, cc_vars, an_vars, hy_vars>>

\* the units of a profile: those of its dimension values
ProfileUnits(profile) ==
    [length |-> profile.length.units.length,
     luminosity |-> profile.luminosity.units.luminosity,
     mass |-> profile.mass.units.mass]

\* profile = profile.new_profile_with_units_converted(...): the profile held is replaced
\* by the one returned, and stays when the call raises.  At most two conversions that
\* change a unit are followed.
U_ConvertProfile ==
    /\ ~IsNone(un_profile.held)
    /\ \E c \in ProfileConversions :
       \E res \in {new_profile_with_units_converted(Get(un_profile.held), c.units,
                                                     c.factors)} :
          LET profile == Get(un_profile.held)
              changes == res.exc = "none"
                            /\ ProfileUnits(Get(res.value)) # ProfileUnits(profile)
          IN  /\ changes => un_profile.leg # "back"
              /\ un_call' = UnitCall("profile", res.exc, profile,
                                     [length |-> 1, luminosity |-> 1, mass |-> 1],
                                     ProfileUnits(profile), c)
              /\ un_profile' =
                    IF res.exc # "none" THEN un_profile
                    ELSE [held |-> res.value,
                          leg |-> IF ~changes THEN un_profile.leg
                                  ELSE IF un_profile.leg = "made" THEN "there"
                                  ELSE "back"]
    /\ UNCHANGED <<un, pl_vars, tr_vars, ge_vars, qp_vars, fit_vars, ob_vars, cc_vars, an_vars, hy_vars>>

UnitsNext ==
    \/ U_New
    \/ U_Convert
    \/ U_NewProfile
    \/ U_ConvertProfile

(***************************************************************************)
(* The analysis scenario: the Analysis object of a LensSourcePlanePhase or *)
(* of a LensMassAndSourcePixelizationPhase (autolens/pipeline/phase.py),   *)
(* whose fit the optimizer calls once per model instance.  An instance is  *)
(* stood for by the maximum separation its lens galaxies give the traced   *)
(* positions and by the likelihood of its fit.                             *)
(***************************************************************************)
IntervalCounter__init__(interval) == [count |-> 0, interval |-> interval]

\* mutant: the count advances before the interval is looked at
IntervalCounter__call___counts_first(self) ==
    IF self.interval = -1
    THEN [self |-> [self EXCEPT !.count = self.count + 1], value |-> FALSE]
    ELSE [self |-> [self EXCEPT !.count = self.count + 1],
          value |-> (self.count + 1) % self.interval = 0]

\* phase.py lines 49-53: the counter after the call, and the value returned
IntervalCounter__call__(self) ==
    IF self.interval = -1
    THEN [self |-> self, value |-> FALSE]
    ELSE [self |-> [self EXCEPT !.count = self.count + 1],
          value |-> (self.count + 1) % self.interval = 0]

\* phase.py lines 121-149: the fields of Analysis the fit reads, the configuration
\* values being the arguments
Analysis__init__(phase, positions, log_interval, visualise_interval, position_threshold, visualize_results) ==
    [phase |-> phase, positions |-> positions,
     should_log |-> IntervalCounter__init__(log_interval),
     should_visualise |-> IntervalCounter__init__(visualise_interval),
     position_threshold |-> position_threshold,
     plot_count |-> 0,
     visualize_results |-> visualize_results]

\* what the calls on an Analysis did: the calls of each counter and the value of the
\* last, the calls of log and of visualize, the fits made, and for the last fit its
\* instance, the objects built and methods called, in order, and how it ended
NoAnalysisLog ==
    [log_calls |-> 0, log_value |-> FALSE, visualise_calls |-> 0,
     visualise_value |-> FALSE, logs |-> 0, visualisations |-> 0, fits |-> 0,
     events |-> <<>>, last |-> Failed("none"), instance |-> None]

\* an Analysis with the log of its calls: what a method of Analysis works on
Running(self, log) == [self |-> self, log |-> log]

\* phase.py lines 190-195: visualize builds the tracer and the fitter of the instance
visualize(run) ==
    Running(run.self,
            [run.log EXCEPT !.visualisations = @ + 1,
                            !.events = @ \o <<"visualize", "tracer", "fitter">>])

\* phase.py lines 183-187: the should_visualise property is read, and when it is true
\* plot_count is increased and visualize called
try_visualize_visualise(run) ==
    LET called == IntervalCounter__call__(run.self.should_visualise)
        counted == Running([run.self EXCEPT !.should_visualise = called.self],
                           [run.log EXCEPT !.visualise_calls = @ + 1,
                                           !.visualise_value = called.value])
    IN  IF called.value
        THEN visualize(Running([counted.self EXCEPT !.plot_count = @ + 1], counted.log))
        ELSE counted

\* phase.py lines 181-182: the should_log property is read, and when it is true log
\* is called
try_visualize_log(run) ==
    LET called == IntervalCounter__call__(run.self.should_log)
    IN  Running([run.self EXCEPT !.should_log = called.self],
                [run.log EXCEPT !.log_calls = @ + 1,
                                !.log_value = called.value,
                                !.logs = IF called.value THEN @ + 1 ELSE @,
                                !.events = IF called.value THEN @ \o <<"log">> ELSE @])

\* phase.py lines 167-188
try_visualize(run) ==
    IF run.self.visualize_results
    THEN try_visualize_visualise(try_visualize_log(run))
    ELSE run

\* phase.py lines 416-426: with positions, a positions tracer and a positions fitter are
\* built, and the call raises when the fitter finds the traced positions further apart
\* than the threshold (fit_point_source.py line 61: within means <=)
check_positions_trace_within_threshold(run, instance) ==
    IF IsNone(run.self.positions)
    THEN [exc |-> "none", run |-> run]
    ELSE LET built == Running(run.self,
                              [run.log EXCEPT !.events =
                                  @ \o <<"positions_tracer", "positions_fitter">>])
         IN  IF ~RLe(instance.separation, run.self.position_threshold)
             THEN [exc |-> "RayTracingException", run |-> built]
             ELSE [exc |-> "none", run |-> built]

\* the end of fit: the tracer and the fitter of the instance are built and the
\* likelihood (phase.py 803-805) or evidence (1064-1066) of the fitter returned
fit_likelihood(run, instance) ==
    [exc |-> "none", value |-> Some(instance.likelihood),
     run |-> Running(run.self, [run.log EXCEPT !.events = @ \o <<"tracer", "fitter">>])]

\* a fit that ended with the exception of the position check
fit_raised(checked) == [exc |-> checked.exc, value |-> None, run |-> checked.run]

\* phase.py lines 801-805: LensSourcePlanePhase.Analysis.fit
LensSourcePlanePhase_fit(run, instance) ==
    LET checked == check_positions_trace_within_threshold(try_visualize(run), instance)
    IN  IF checked.exc # "none" THEN fit_raised(checked)
        ELSE fit_likelihood(checked.run, instance)

\* phase.py lines 1062-1066: LensMassAndSourcePixelizationPhase.Analysis.fit
LensMassAndSourcePixelizationPhase_fit(run, instance) ==
    LET checked == check_positions_trace_within_threshold(run, instance)
    IN  IF checked.exc # "none" THEN fit_raised(checked)
        ELSE fit_likelihood(try_visualize(checked.run), instance)

AnalysisPhases == {"LensSourcePlanePhase", "LensMassAndSourcePixelizationPhase"}

\* the intervals of the configuration: -1 switches a counter off
Intervals == {-1, 1, 2}

\* the maximum separations of the traced positions, and the position thresholds
Separations == {R(1), R(3)}
PositionThresholds == {R(1), R(2)}

AnalysisInit ==
    /\ an = None
    /\ an_log = NoAnalysisLog

\* Analysis(lensing_image, phase_name): the configuration is read
A_New ==
    /\ IsNone(an)
    /\ \E phase \in AnalysisPhases, positions \in {None, Some("positions")},
          log_interval \in Intervals, visualise_interval \in Intervals,
          position_threshold \in PositionThresholds, visualize_results \in BOOLEAN :
          an' = Some(Analysis__init__(phase, positions, log_interval, visualise_interval,
                                      position_threshold, visualize_results))
    /\ an_log' = NoAnalysisLog
    /\ UNCHANGED <<pl_vars, tr_vars, ge_vars, qp_vars, fit_vars, ob_vars, cc_vars, un_vars, hy_vars>>

\* analysis.fit(instance), called by the optimizer
A_Fit ==
    /\ ~IsNone(an)
    /\ an_log.fits < MaxFits
    /\ \E separation \in Separations :
       \E res \in {LET instance == [separation |-> separation, likelihood |-> R(1)]
                        run == Running(Get(an),
                                       [an_log EXCEPT !.events = <<>>,
                                                      !.instance = Some(instance)])
                    IN  IF Get(an).phase = "LensSourcePlanePhase"
                        THEN LensSourcePlanePhase_fit(run, instance)
                        ELSE LensMassAndSourcePixelizationPhase_fit(run, instance)} :
          /\ an' = Some(res.run.self)
          /\ an_log' = [res.run.log EXCEPT !.fits = @ + 1,
                                           !.last = [exc |-> res.exc, value |-> res.value]]
    /\ UNCHANGED <<pl_vars, tr_vars, ge_vars, qp_vars, fit_vars, ob_vars, cc_vars, un_vars, hy_vars>>

AnalysisNext ==
    \/ A_New
    \/ A_Fit

(***************************************************************************)
(* The hyper scenario: hyper_run of LensLightHyperOnlyPhase (on the lens   *)
(* galaxies) and of LensMassAndSourceProfileHyperOnlyPhase (on the source  *)
(* galaxies).  Result objects are held by identity, so that a write        *)
(* through one reference shows through every other.  What the optimizer of *)
(* a sub-phase finds is an input.                                          *)
(***************************************************************************)
\* the list of galaxies of a result that hyper_run of the class works on
HyperList(cls) ==
    IF cls = "LensLightHyperOnlyPhase" THEN "lens_galaxies" ELSE "source_galaxies"

\* phase.py lines 687-692 and 947-954, pass_priors of the sub-phase: a galaxy prior for
\* each galaxy of the last previous result, with a hyper galaxy to fit at hyper_index only
pass_priors(galaxies, hyper_index) ==
    [j \in DOMAIN galaxies |->
        [galaxy |-> galaxies[j], use_hyper_galaxy |-> j - 1 = hyper_index]]

\* phase.py lines 357-377, run of the sub-phase: the galaxies of result.constant, the one
\* at hyper_index with the hyper galaxy the optimizer found
sub_phase_run(galaxies, hyper_index, found) ==
    LET priors == pass_priors(galaxies, hyper_index)
    IN  [j \in DOMAIN priors |->
            [priors[j].galaxy EXCEPT !.hyper_galaxy =
                IF priors[j].use_hyper_galaxy THEN Some(found) ELSE None]]

\* mutant: the hyper galaxy is read from the first galaxy of the sub-phase result
\* (result.constant.lens_galaxies[0], as the line commented out at 706 does)
hyper_galaxy_written_from_first(galaxies, result_galaxies, i) ==
    [galaxies EXCEPT ![i + 1].hyper_galaxy = PyIndex(result_galaxies, 0).hyper_galaxy]

\* phase.py line 705 (967): the list of galaxies after
\* galaxies[i].hyper_galaxy = result.constant.<list>[i].hyper_galaxy
hyper_galaxy_written(galaxies, result_galaxies, i) ==
    [galaxies EXCEPT ![i + 1].hyper_galaxy = PyIndex(result_galaxies, i).hyper_galaxy]

\* the galaxies of previous results: a light profile, and a hyper galaxy or none
HyperGalaxies ==
    {[light |-> "sersic", hyper_galaxy |-> None],
     [light |-> "exponential", hyper_galaxy |-> Some("hyper_0")]}

\* the hyper galaxies an optimizer may find
FoundHyperGalaxies == {"hyper_1", "hyper_2"}

HyperGalaxyLists == SeqsUpTo(HyperGalaxies, MaxGalaxies - 1)

\* a result: the galaxies of its constant
Result(lens, source) == [lens_galaxies |-> lens, source_galaxies |-> source]

\* the result of an earlier phase that precedes the last in a list of two
EarlierResult == Result(<<[light |-> "sersic", hyper_galaxy |-> None]>>, <<>>)

NoHyperRun ==
    [pc |-> "idle", cls |-> "none", heap |-> <<>>, given |-> <<>>,
     previous_results |-> <<>>, hyper_result |-> None, i |-> 0, returned |-> None]

HyperInit ==
    /\ hy = NoHyperRun
    /\ hy_log = <<>>

\* phase.hyper_run(image, previous_results) is called; line 694 (956):
\* hyper_result = previous_results[-1]
H_Call ==
    /\ hy.pc = "idle"
    /\ \E cls \in {"LensLightHyperOnlyPhase", "LensMassAndSourceProfileHyperOnlyPhase"},
          lens \in HyperGalaxyLists, source \in HyperGalaxyLists, earlier \in BOOLEAN :
          LET heap == IF earlier THEN <<EarlierResult, Result(lens, source)>>
                      ELSE <<Result(lens, source)>>
              previous_results == [k \in DOMAIN heap |-> k]
          IN  hy' = [NoHyperRun EXCEPT !.pc = "loop", !.cls = cls, !.heap = heap,
                                       !.given = heap,
                                       !.previous_results = previous_results,
                                       !.hyper_result =
                                           Some(PyIndex(previous_results, -1))]
    /\ hy_log' = <<>>
    /\ UNCHANGED <<pl_vars, tr_vars, ge_vars, qp_vars, fit_vars, ob_vars, cc_vars, un_vars, an_vars>>

\* phase.py lines 696-705 (958-967): one pass of the loop over
\* range(len(previous_results[-1].constant.<list>)): the sub-phase of hyper_index i is
\* run on previous_results and the hyper galaxy of its result written
H_SubPhase ==
    /\ hy.pc = "loop"
    /\ LET list == HyperList(hy.cls)
           last == PyIndex(hy.previous_results, -1)
       IN  /\ hy.i < Len(hy.heap[last][list])
           /\ \E found \in FoundHyperGalaxies :
                 LET seen == hy.heap[last][list]
                     result == sub_phase_run(seen, hy.i, found)
                     target == Get(hy.hyper_result)
                 IN  /\ hy' = [hy EXCEPT
                                  !.heap[target][list] =
                                      hyper_galaxy_written(@, result, hy.i),
                                  !.i = @ + 1]
                     /\ hy_log' = Append(hy_log, [hyper_index |-> hy.i, seen |-> seen,
                                                  found |-> found])
    /\ UNCHANGED <<pl_vars, tr_vars, ge_vars, qp_vars, fit_vars, ob_vars, cc_vars, un_vars, an_vars>>

\* phase.py line 708 (968): the loop has ended and hyper_result is returned
H_Return ==
    /\ hy.pc = "loop"
    /\ hy.i >= Len(hy.heap[PyIndex(hy.previous_results, -1)][HyperList(hy.cls)])
    /\ hy' = [hy EXCEPT !.pc = "returned", !.returned = hy.hyper_result]
    /\ UNCHANGED <<hy_log, pl_vars, tr_vars, ge_vars, qp_vars, fit_vars, ob_vars, cc_vars, un_vars, an_vars>>

HyperNext ==
    \/ H_Call
    \/ H_SubPhase
    \/ H_Return

(***************************************************************************)
(* Specifications.                                                         *)
(***************************************************************************)
vars == <<pl_vars, tr_vars, aux_vars>>

Init ==
    /\ PlaneInit
    /\ TracerInit
    /\ GeometryInit
    /\ PropertyInit
    /\ FitInit
    /\ ObserveInit
    /\ ConcurrentInit
    /\ UnitsInit
    /\ AnalysisInit
    /\ HyperInit

\* the plane scenario
SpecPlane == Init /\ [][PlaneNext]_vars

\* the tracer scenario
SpecTracer == Init /\ [][TracerNext]_vars

\* the geometry scenario
SpecGeometry == Init /\ [][GeometryNext]_vars

\* the property scenario
SpecProperty == Init /\ [][PropertyNext]_vars

\* the fit scenario
SpecFit == Init /\ [][FitNext]_vars

\* the observation scenario
SpecObserve == Init /\ [][ObserveNext]_vars

\* the concurrency scenario
SpecConcurrent == Init /\ [][ConcurrentNext]_vars

\* the units scenario
SpecUnits == Init /\ [][UnitsNext]_vars

\* the analysis scenario
SpecAnalysis == Init /\ [][AnalysisNext]_vars

\* the hyper scenario
SpecHyper == Init /\ [][HyperNext]_vars

(***************************************************************************)
(* Properties of the plane scenario (SpecPlane).                           *)
(***************************************************************************)
\* the plane a constructor call returned, its grid bundle and deflection field
BuiltPlane == Get(pl_res.plane)
PlaneGrids == IF pl_call.cls = "RTPlane" THEN BuiltPlane.coordinates_collection
              ELSE BuiltPlane.grid_stack
PlaneDeflections == IF pl_call.cls = "RTPlane" THEN BuiltPlane.deflections
                    ELSE BuiltPlane.deflection_stack

AllZero(field) == \A v \in Variants : \A i \in 1..Len(field[v]) : field[v][i] = VZero

\* C1: Plane (autolens/lens/plane.py) called with an empty galaxy list raises
\* RayTracingException, whatever the grid stack and compute_deflections; no attribute of
\* the plane has been assigned and no deflection has been computed when it raises.
C1_EmptyPlaneRaises ==
    (pl_call.cls = "Plane" /\ pl_call.galaxies = <<>>) =>
        /\ pl_pc = "raised"
        /\ pl_res.exc = "RayTracingException"
        /\ IsNone(pl_res.plane)
        /\ pl_res.fields = {}
        /\ pl_res.deflection_calls = 0

C1_Witness ==
    /\ pl_call.cls = "Plane"
    /\ pl_call.galaxies = <<>>
    /\ pl_call.compute_deflections
    /\ Len(pl_call.grid_stack.regular) = MaxPix
    /\ pl_pc = "raised"

RedshiftsConflict(galaxies) ==
    /\ \E i \in 1..Len(galaxies) : galaxies[i].redshift # NoRedshift
    /\ \E i \in 1..Len(galaxies) : galaxies[i].redshift # galaxies[1].redshift

C3_PlaneRedshifts ==
    (pl_call.cls = "Plane" /\ pl_call.galaxies # <<>>) =>
        IF RedshiftsConflict(pl_call.galaxies)
        THEN pl_pc = "raised" /\ pl_res.exc = "RayTracingException" /\ IsNone(pl_res.plane)
        ELSE /\ pl_res.exc = "none"
             /\ ~ IsNone(pl_res.plane)
             /\ BuiltPlane.redshift = pl_call.galaxies[1].redshift
             /\ BuiltPlane.galaxies = pl_call.galaxies

\* a None next to a value is rejected
C3_Witness ==
    /\ pl_call.cls = "Plane"
    /\ pl_pc = "raised"
    /\ \E i \in 1..Len(pl_call.galaxies) : pl_call.galaxies[i].redshift = NoRedshift
    /\ \E i \in 1..Len(pl_call.galaxies) : pl_call.galaxies[i].redshift # NoRedshift

\* the sum, in galaxy-list order, of the deflections of the first n galaxies at one
\* coordinate
RECURSIVE DeflectionAt(_, _, _)
DeflectionAt(galaxies, coord, n) ==
    IF n = 0 THEN VZero
    ELSE VAdd(DeflectionAt(galaxies, coord, n - 1),
              galaxy_deflections_from_grid(galaxies[n], <<coord>>)[1])

DeflectionsComputed ==
    /\ pl_pc \in {"built", "traced"}
    /\ pl_call.compute_deflections
    /\ ~ IsNone(PlaneDeflections)

IsDeflectionSum(field, galaxies, grid) ==
    /\ Len(field) = Len(grid)
    /\ \A i \in 1..Len(field) : field[i] = DeflectionAt(galaxies, grid[i], Len(galaxies))

\* C11: a plane built with compute_deflections = True has, for every grid variant, one
\* deflection 2-vector per grid row, equal to the sum in list order of every galaxy's
\* deflection at that row's coordinate; a galaxy without mass profile contributes the
\* zero vector.
C11_DeflectionSum ==
    DeflectionsComputed =>
        \A v \in Variants :
            /\ IsDeflectionSum(Get(PlaneDeflections)[v], pl_call.galaxies, pl_call.grid_stack[v])
            /\ \A k \in 1..Len(pl_call.galaxies) : \A i \in 1..Len(pl_call.grid_stack[v]) :
                  pl_call.galaxies[k].mass = 0 =>
                      galaxy_deflections_from_grid(pl_call.galaxies[k],
                                                   pl_call.grid_stack[v])[i] = VZero

\* the statement of C11 holds for every plane but the Plane of ray_tracing.py built from
\* an empty list, whose field is the int 0 of the empty sum for every variant
DeflectionSumUnlessEmptySum ==
    DeflectionsComputed =>
        IF pl_call.cls = "RTPlane" /\ pl_call.galaxies = <<>>
        THEN \A v \in Variants : Get(PlaneDeflections)[v] = IntZero
        ELSE C11_DeflectionSum

\* row i of a deflection field; numpy broadcasts the int 0 to every row
DeflectionRow(field, i) == IF field = IntZero THEN VZero ELSE field[i]

\* C10: a trace of a plane with computed deflections returns a bundle with the plane's
\* variants and row counts in which every coordinate is the plane's coordinate minus the
\* deflection of that row; the plane itself is left as it was.
C10_TraceToNextPlane ==
    [][(pl_pc = "built" /\ pl_pc' = "traced") =>
          /\ pl_res' = pl_res
          /\ ~ IsNone(pl_traced')
          /\ DOMAIN Get(pl_traced') = Variants
          /\ SameShape(Get(pl_traced'), PlaneGrids)
          /\ \A v \in Variants : \A i \in 1..Len(PlaneGrids[v]) :
                Get(pl_traced')[v][i] =
                    VSub(PlaneGrids[v][i], DeflectionRow(Get(PlaneDeflections)[v], i))
      ]_vars

\* a trace that moved a coordinate
C10_Witness ==
    /\ pl_pc = "traced"
    /\ Len(pl_call.galaxies) >= 2
    /\ \E v \in Variants : \E i \in 1..Len(PlaneGrids[v]) :
          Get(pl_traced)[v][i] # PlaneGrids[v][i]

(***************************************************************************)
(* Properties of the tracer scenario (SpecTracer).                         *)
(***************************************************************************)
\* plane k (0-based) of the MultiTracer under construction
MTPlane(k) == PyIndex(mt.planes, k)

\* sum over the planes p < n of factor[p] times the deflection of plane p at row i of
\* variant v
RECURSIVE ScaledDeflectionSum(_, _, _, _)
ScaledDeflectionSum(factor, v, i, n) ==
    IF n = 0 THEN VZero
    ELSE VAdd(ScaledDeflectionSum(factor, v, i, n - 1),
              VScale(factor[n - 1], Get(MTPlane(n - 1).deflections)[v][i]))

\* C4: plane 0 of a MultiTracer holds the input grids; plane k > 0 holds, row by row, the
\* input coordinate minus the sum over all planes p < k of scaling_factor(p, k) times the
\* deflection of plane p.
C4_CumulativeGrid ==
    \A k \in 0..(Len(mt.planes) - 1) :
        LET factor == [p \in 0..(k - 1) |-> scaling_factor(Get(mt.geometry), p, k)]
        IN  /\ SameShape(MTPlane(k).coordinates_collection, args.image_plane_grids)
            /\ k = 0 => MTPlane(k).coordinates_collection = args.image_plane_grids
            /\ \A v \in Variants : \A i \in 1..Len(args.image_plane_grids[v]) :
                  MTPlane(k).coordinates_collection[v][i] =
                      VSub(args.image_plane_grids[v][i], ScaledDeflectionSum(factor, v, i, k))

\* a third plane whose grid is neither the input grid nor the trace of the second plane
C4_Witness ==
    /\ Len(mt.planes) >= 3
    /\ MTPlane(2).coordinates_collection # args.image_plane_grids
    /\ MTPlane(2).coordinates_collection # trace_to_next_plane(MTPlane(1))
    /\ scaling_factor(Get(mt.geometry), 0, 1) # One

Count(list, x) == Cardinality({i \in 1..Len(list) : list[i] = x})

RECURSIVE Flatten(_)
Flatten(lists) == IF lists = <<>> THEN <<>> ELSE Head(lists) \o Flatten(Tail(lists))

RedshiftsOf(galaxies) == {galaxies[i].redshift : i \in 1..Len(galaxies)}

\* C5: the plane redshifts of a MultiTracer are strictly increasing and are the distinct
\* redshifts of the input galaxies, one plane each; every input galaxy is in exactly one
\* plane, and every galaxy of plane k has plane k's redshift.
C5_PlanesPartitionGalaxies ==
    /\ "planes_redshift_order" \in mt.set =>
          /\ \A k \in 1..(Len(mt.planes_redshift_order) - 1) :
                mt.planes_redshift_order[k] < mt.planes_redshift_order[k + 1]
          /\ RedshiftsOf(args.galaxies) =
                {mt.planes_redshift_order[k] : k \in 1..Len(mt.planes_redshift_order)}
          /\ Len(mt.planes_redshift_order) = Cardinality(RedshiftsOf(args.galaxies))
    /\ "planes_galaxies" \in mt.set =>
          /\ Len(mt.planes_galaxies) = Len(mt.planes_redshift_order)
          /\ \A k \in 1..Len(mt.planes_galaxies) : \A j \in 1..Len(mt.planes_galaxies[k]) :
                mt.planes_galaxies[k][j].redshift = mt.planes_redshift_order[k]
          /\ \A g \in Galaxies :
                Count(Flatten(mt.planes_galaxies), g) = Count(args.galaxies, g)
    /\ \A k \in 1..Len(mt.planes) : mt.planes[k].galaxies = mt.planes_galaxies[k]

\* galaxies given out of redshift order, two of them at one redshift
C5_Witness ==
    /\ mt_built
    /\ Len(mt.planes) = 2
    /\ Len(args.galaxies) = 3
    /\ args.galaxies[1].redshift > args.galaxies[2].redshift
    /\ args.galaxies[3].redshift = args.galaxies[1].redshift

\* C6: in a MultiTracer the last plane has no deflection field and every plane before it
\* has one; the RayTracingException of the loop is never raised; a MultiTracer that was
\* built has one plane per redshift.
C6_LastPlaneNoDeflections ==
    /\ mt_exc # "RayTracingException"
    /\ \A k \in 0..(Len(mt.planes) - 1) :
          IsNone(MTPlane(k).deflections) <=> (k = Len(mt.planes_redshift_order) - 1)
    /\ mt_built => (Len(mt.planes) = Len(mt.planes_redshift_order) /\ Len(mt.planes) >= 1)

C6_Witness ==
    /\ mt_built
    /\ Len(mt.planes) = 3
    /\ IsNone(MTPlane(2).deflections)
    /\ ~ IsNone(MTPlane(1).deflections)

\* C7: a Tracer is built in this order: the image plane (lens galaxies, input grids,
\* deflections computed), then the source-plane grids (image-plane grids minus image-plane
\* deflections), then the source plane (source galaxies, those grids, no deflections).
C7_TwoPlaneOrder ==
    /\ "image_plane" \in tr.set =>
          /\ Get(tr.image_plane).galaxies = lens_galaxies
          /\ Get(tr.image_plane).coordinates_collection = args.image_plane_grids
          /\ ~ IsNone(Get(tr.image_plane).deflections)
    /\ ~ IsNone(source_plane_grids) =>
          /\ "image_plane" \in tr.set
          /\ \A v \in Variants : \A i \in 1..Len(args.image_plane_grids[v]) :
                Get(source_plane_grids)[v][i] =
                    VSub(args.image_plane_grids[v][i],
                         DeflectionRow(Get(Get(tr.image_plane).deflections)[v], i))
    /\ "source_plane" \in tr.set =>
          /\ ~ IsNone(source_plane_grids)
          /\ Get(tr.source_plane).galaxies = source_galaxies
          /\ Get(tr.source_plane).coordinates_collection = Get(source_plane_grids)
          /\ IsNone(Get(tr.source_plane).deflections)
    /\ tr_built => tr.set = {"geometry", "image_plane", "source_plane"}

\* a Tracer whose source-plane grid was moved by the lens
C7_Witness ==
    /\ tr_built
    /\ lens_galaxies # <<>>
    /\ source_galaxies # <<>>
    /\ Get(tr.source_plane).coordinates_collection # args.image_plane_grids

\* numpy's comparison of a scalar with an image: the scalar against every pixel
SameImage(value, image) == \A i \in 1..Len(image) : image[i] = value

\* galaxies at exactly two redshifts, the Tracer given those of the first as lens galaxies
\* and those of the second as source galaxies
TwoRedshifts ==
    /\ pc = "end"
    /\ mt_built
    /\ tr_built
    /\ Len(mt.planes_redshift_order) = 2
    /\ lens_galaxies = mt.planes_galaxies[1]
    /\ source_galaxies = mt.planes_galaxies[2]

\* the part of C8 about the planes
TwoRedshiftsSamePlanes ==
    TwoRedshifts =>
        /\ Len(mt.planes) = 2
        /\ MTPlane(0) = Get(tr.image_plane)
        /\ MTPlane(1) = Get(tr.source_plane)
        /\ scaling_factor(Get(mt.geometry), 0, 1) = One

\* C8: for galaxies at exactly two redshifts the MultiTracer has the two planes of the
\* Tracer built from the same galaxies and grids (same grids, same deflection fields), and
\* both give the same image of the galaxy light profiles.
C8_MultiTracerSpecialises ==
    TwoRedshifts =>
        /\ Len(mt.planes) = 2
        /\ MTPlane(0) = Get(tr.image_plane)
        /\ MTPlane(1) = Get(tr.source_plane)
        /\ SameImage(Get(images.mt_image), Get(images.tr_image))

ThreeAtOneRedshift ==
    /\ mt_built
    /\ ~ IsNone(images.mt_blurring)
    /\ Len(args.galaxies) = 3
    /\ Cardinality(RedshiftsOf(args.galaxies)) = 1

\* the single plane holding the galaxies in the order perm on the input grids
SinglePlane(perm) ==
    Get(RT_Plane__init__([i \in 1..Len(args.galaxies) |-> args.galaxies[perm[i]]],
                         args.image_plane_grids, FALSE).plane)

\* the part of C9 about the planes
ThreeAtOneRedshiftOnePlane ==
    ThreeAtOneRedshift =>
        /\ Len(mt.planes) = 1
        /\ MTPlane(0).coordinates_collection = args.image_plane_grids
        /\ IsNone(MTPlane(0).deflections)

\* C9: a MultiTracer of three galaxies at one redshift has one plane on the input grids,
\* and its image and blurring image are those of a single plane holding the three
\* galaxies, in whatever order they are given.
C9_OneRedshiftOnePlane ==
    ThreeAtOneRedshift =>
        /\ Len(mt.planes) = 1
        /\ MTPlane(0).coordinates_collection = args.image_plane_grids
        /\ \A perm \in Permutations(1..3) :
              /\ SameImage(Get(images.mt_image), plane_image(SinglePlane(perm)))
              /\ SameImage(Get(images.mt_blurring), plane_blurring_image(SinglePlane(perm)))

\* the MultiTracer constructor has ended, by returning or by raising
mt_ended == pc \notin {"start", "mt_sort", "mt_redshifts", "mt_geometry", "mt_group",
                       "mt_planes"}

\* C14: building a MultiTracer from zero galaxies fails with RayTracingException, and no
\* MultiTracer with an empty plane list is produced.
C14_ZeroGalaxiesRayTracingException ==
    /\ (mt_ended /\ args.galaxies = <<>>) => mt_exc = "RayTracingException"
    /\ mt_built => mt.planes # <<>>

\* what the constructor does with zero galaxies: redshifts[-1] of the empty redshift list
\* in TracerGeometry.__init__ ends it with IndexError before a plane list exists
ZeroGalaxiesIndexError ==
    /\ (mt_ended /\ args.galaxies = <<>>) =>
          /\ mt_exc = "IndexError"
          /\ mt.set = {"galaxies_redshift_order", "planes_redshift_order"}
          /\ mt.planes = <<>>
    /\ mt_built => mt.planes # <<>>

(***************************************************************************)
(* Properties of the geometry scenario (SpecGeometry).                     *)
(***************************************************************************)
StrictlyIncreasing(redshifts) ==
    \A k \in 1..(Len(redshifts) - 1) : redshifts[k] < redshifts[k + 1]

\* C12: for a geometry with strictly increasing redshifts and a plane i below the final
\* plane, scaling_factor(i, final) returns exactly 1; scaling_factor(0, 1) of a two-plane
\* geometry is the case of two redshifts.
C12_ScalingFactorToFinalPlane ==
    (/\ geo_call.method = "scaling_factor"
     /\ StrictlyIncreasing(geo_call.redshifts)
     /\ geo_call.plane_j = Len(geo_call.redshifts) - 1
     /\ 0 <= geo_call.plane_i
     /\ geo_call.plane_i < geo_call.plane_j) =>
        /\ Get(geo).final_plane = geo_call.plane_j
        /\ geo_res = Returned(One)

C12_Witness ==
    /\ geo_call.method = "scaling_factor"
    /\ geo_call.redshifts = <<1, 2, 3>>
    /\ geo_call.plane_i = 1
    /\ geo_call.plane_j = 2
    /\ geo_res = Returned(One)

\* a plane index outside 0..len(redshifts)-1
OutOfRange(redshifts, plane_i) == plane_i < 0 \/ plane_i >= Len(redshifts)

\* the call made on the geometry takes an index outside 0..len(redshifts)-1
CallOutOfRange ==
    /\ geo_call.method \in GeometryMethods
    /\ \/ OutOfRange(geo_call.redshifts, geo_call.plane_i)
       \/ /\ geo_call.method # "ang_to_earth"
          /\ OutOfRange(geo_call.redshifts, geo_call.plane_j)

\* C13: a geometry with an empty redshift list, and a distance, critical density or
\* scaling factor requested with a plane index outside 0..len(redshifts)-1 (negative
\* indices included), fail with GeometryException and return no value.
C13_GeometryException ==
    /\ (geo_call.method = "__init__" /\ geo_call.redshifts = <<>>) =>
          geo_res.exc = "GeometryException"
    /\ CallOutOfRange => (geo_res.exc = "GeometryException" /\ IsNone(geo_res.value))

\* what the code does instead: Python list indexing decides.  The empty list ends the
\* constructor with IndexError; an index below -len or above len-1 ends the call with
\* IndexError; an index in -len..-1 is taken from the end of the list, so that
\* ang_to_earth(-1) returns the distance of the final plane.
GeometryListIndexing ==
    /\ (geo_call.method = "__init__" /\ geo_call.redshifts = <<>>) =>
          (geo_res.exc = "IndexError" /\ IsNone(geo))
    /\ geo_call.method \in GeometryMethods =>
          /\ geo_res.exc \in {"none", "IndexError"}
          /\ (geo_res.exc = "IndexError") <=>
                \/ ~ PyIndexOK(geo_call.redshifts, geo_call.plane_i)
                \/ /\ geo_call.method # "ang_to_earth"
                   /\ ~ PyIndexOK(geo_call.redshifts, geo_call.plane_j)
    /\ (/\ geo_call.method = "ang_to_earth"
        /\ geo_call.plane_i < 0
        /\ PyIndexOK(geo_call.redshifts, geo_call.plane_i)) =>
          geo_res = Returned(ang_to_earth(Get(geo),
                                          Len(geo_call.redshifts) + geo_call.plane_i))

(***************************************************************************)
(* Properties of the property scenario (SpecProperty).                     *)
(***************************************************************************)
RedshiftProperties ==
    {"arcsec_per_kpc_proper", "kpc_per_arcsec_proper", "angular_diameter_distance_to_earth",
     "cosmic_average_mass_density_arcsec", "einstein_radius_kpc"}

\* the value of the function a redshift-dependent property wraps, for a plane with a
\* redshift
WrappedValue(property, plane) ==
    LET z == plane.redshift
        distance == angular_diameter_distance(plane.cosmology, z)
        arcsec == RDiv(R(4), distance)
        masses == {k \in 1..Len(plane.galaxies) : plane.galaxies[k].mass # 0}
    IN  CASE property = "arcsec_per_kpc_proper" -> Some(arcsec)
          [] property = "kpc_per_arcsec_proper" -> Some(RDiv(One, arcsec))
          [] property = "angular_diameter_distance_to_earth" -> Some(distance)
          [] property = "cosmic_average_mass_density_arcsec" ->
                Some(RDiv(critical_density(plane.cosmology, z),
                          RMul(arcsec, RMul(arcsec, arcsec))))
          [] property = "einstein_radius_kpc" ->
                IF masses = {} THEN None
                ELSE Some(RMul(RDiv(One, arcsec),
                               RSumSeq([k \in 1..Len(plane.galaxies) |->
                                           R(plane.galaxies[k].mass)])))

\* C15: on a plane whose redshift is None, each of arcsec_per_kpc_proper,
\* kpc_per_arcsec_proper, angular_diameter_distance_to_earth,
\* cosmic_average_mass_density_arcsec and einstein_radius_kpc returns None (not zero, no
\* exception) without a call on the cosmology; on a plane with a redshift it returns the
\* value of the wrapped function.
C15_NoRedshiftGivesNone ==
    qp_call.property \in RedshiftProperties =>
        /\ qp_res.exc = "none"
        /\ IF Get(qp_plane).redshift = NoRedshift
           THEN /\ qp_res.value = None
                /\ qp_res.value # Some(Zero)
                /\ qp_res.cosmology_calls = 0
           ELSE qp_res.value = WrappedValue(qp_call.property, Get(qp_plane))

C15_Witness ==
    /\ qp_call.property = "einstein_radius_kpc"
    /\ Get(qp_plane).redshift = NoRedshift
    /\ has_mass_profile(Get(qp_plane))
    /\ Len(Get(qp_plane).galaxies) = 2
    /\ qp_res = PropertyValue(None, 0)

\* the positions in a galaxy list of the galaxies with a pixelization / a regularization
Pixelized(galaxies) == {k \in 1..Len(galaxies) : galaxies[k].pixelization # None}
Regularized(galaxies) == {k \in 1..Len(galaxies) : galaxies[k].regularization # None}

\* C16: reading mapper, and reading regularization, leaves the plane as it was and has
\* one of three outcomes, decided by the number n of galaxies of the plane that carry the
\* capability: None for n = 0; for n = 1 the mapper that galaxy's pixelization makes from
\* the plane's grid stack and border / that galaxy's regularization; PixelizationException
\* for n > 1.
C16_MapperRegularization ==
    [][(CanReadProperty /\ qp_call'.property \in {"mapper", "regularization"}) =>
          LET plane == Get(qp_plane)
              carriers == IF qp_call'.property = "mapper" THEN Pixelized(plane.galaxies)
                          ELSE Regularized(plane.galaxies)
              single == plane.galaxies[CHOOSE k \in carriers : TRUE]
          IN  /\ qp_plane' = qp_plane
              /\ Cardinality(carriers) = 0 => qp_res' = PropertyValue(None, 0)
              /\ Cardinality(carriers) = 1 =>
                    qp_res' = PropertyValue(
                                 Some(IF qp_call'.property = "mapper"
                                      THEN mapper_from_grid_stack_and_border(
                                               Get(single.pixelization), plane.grid_stack,
                                               plane.border)
                                      ELSE Get(single.regularization)), 0)
              /\ Cardinality(carriers) > 1 =>
                    (qp_res'.exc = "PixelizationException" /\ IsNone(qp_res'.value))
      ]_vars

C16_Witness ==
    /\ qp_call.property = "mapper"
    /\ Cardinality(Pixelized(Get(qp_plane).galaxies)) = 2
    /\ Len(Get(qp_plane).galaxies) = 3
    /\ qp_res.exc = "PixelizationException"

(***************************************************************************)
(* Properties of the fit scenario (SpecFit).                               *)
(***************************************************************************)
\* the profiles of the tracer that carry the name
Named(tracer, name) ==
    {<<k, n>> \in (1..Len(tracer.planes)) \X (1..2) :
        /\ n <= Len(tracer.planes[k].profiles)
        /\ tracer.planes[k].profiles[n].name = name}

MessageContains(msg, name) == \E k \in 1..Len(msg) : msg[k] = name

\* C17: FitPositionsImage and FitFluxes constructed for a name that no point-source
\* profile of the tracer carries raise PointSourceExtractionException with a message that
\* contains the name, before positions_solver.solve is called and before a magnification
\* is computed; no fit object results.
C17_NoMatchingProfile ==
    (/\ fit_call.cls \in {"FitPositionsImage", "FitFluxes"}
     /\ Named(fit_call.tracer, fit_call.name) = {}) =>
        /\ fit_res.exc = "PointSourceExtractionException"
        /\ MessageContains(fit_res.msg, fit_call.name)
        /\ fit_res.solver_calls = 0
        /\ fit_res.magnification_calls = 0
        /\ IsNone(fit_res.fit)

C17_Witness ==
    /\ fit_call.cls = "FitPositionsImage"
    /\ fit_call.name = "point_1"
    /\ Len(ProfilesOf(fit_call.tracer.planes)) = 1
    /\ Len(fit_call.positions) = 2
    /\ fit_res.exc = "PointSourceExtractionException"

\* the named profile of the tracer has no flux attribute
NamedWithoutFlux(tracer, name) ==
    /\ Named(tracer, name) # {}
    /\ \A q \in Named(tracer, name) : IsNone(tracer.planes[q[1]].profiles[q[2]].flux)

\* C18: FitFluxes constructed for a name whose profile has no flux attribute raises
\* PointSourceExtractionException with a message other than the one of the missing
\* profile; for a name without profile the message is the one of the missing profile (that
\* check comes first); neither failure computes a magnification or yields a fit.
C18_NoFluxAttribute ==
    fit_call.cls = "FitFluxes" =>
        /\ NamedWithoutFlux(fit_call.tracer, fit_call.name) =>
              /\ fit_res.exc = "PointSourceExtractionException"
              /\ fit_res.msg # NoMatchingProfileMessage(fit_call.name)
              /\ MessageContains(fit_res.msg, "PointSource")
        /\ Named(fit_call.tracer, fit_call.name) = {} =>
              /\ fit_res.exc = "PointSourceExtractionException"
              /\ fit_res.msg = NoMatchingProfileMessage(fit_call.name)
        /\ fit_res.exc # "none" => (fit_res.magnification_calls = 0 /\ IsNone(fit_res.fit))

C18_Witness ==
    /\ fit_call.cls = "FitFluxes"
    /\ NamedWithoutFlux(fit_call.tracer, fit_call.name)
    /\ Len(ProfilesOf(fit_call.tracer.planes)) = 2
    /\ fit_res.exc = "PointSourceExtractionException"

\* the magnification 1 / det(I - H) of the lenses in front of plane plane_j (0-based);
\* the lenses of this module have a diagonal Hessian
RECURSIVE JacobianDiagonal(_, _)
JacobianDiagonal(tracer, plane_j) ==
    IF plane_j = 0 THEN <<1, 1>>
    ELSE LET before == JacobianDiagonal(tracer, plane_j - 1)
             lens == tracer.planes[plane_j]
         IN  <<before[1] * (1 - lens.kappa - lens.gamma),
               before[2] * (1 - lens.kappa + lens.gamma)>>

HessianMagnification(tracer, name) ==
    LET diagonal == JacobianDiagonal(tracer,
                        IF Len(tracer.planes) > 2
                        THEN (CHOOSE q \in Named(tracer, name) : TRUE)[1] - 1
                        ELSE Len(tracer.planes) - 1)
    IN  Norm(1, diagonal[1] * diagonal[2])

FluxOfNamed(tracer, name) ==
    LET q == CHOOSE r \in Named(tracer, name) : TRUE
    IN  Get(tracer.planes[q[1]].profiles[q[2]].flux)

FitFluxesBuilt == fit_call.cls = "FitFluxes" /\ ~ IsNone(fit_res.fit)

\* C19 as stated: the model fluxes of a FitFluxes are, position by position, the Hessian
\* magnification times the flux of the source.
C19_FluxIsMagnificationTimesFlux ==
    FitFluxesBuilt =>
        LET model_fluxes == Get(Get(fit_res.fit).model_data)
        IN  /\ Len(model_fluxes) = Len(fit_call.positions)
            /\ \A i \in 1..Len(model_fluxes) :
                  model_fluxes[i] = RMul(HessianMagnification(fit_call.tracer, fit_call.name),
                                         FluxOfNamed(fit_call.tracer, fit_call.name))

\* C19 amended: the model fluxes of a FitFluxes are, position by position, the absolute
\* value of the Hessian magnification times the flux of the source; there is one model
\* flux per position.
C19_FluxIsAbsMagnificationTimesFlux ==
    FitFluxesBuilt =>
        LET model_fluxes == Get(Get(fit_res.fit).model_data)
            magnification == HessianMagnification(fit_call.tracer, fit_call.name)
        IN  /\ Len(model_fluxes) = Len(fit_call.positions)
            /\ fit_res.magnification_calls = 1
            /\ \A i \in 1..Len(model_fluxes) :
                  model_fluxes[i] =
                      RMul(<<Abs(magnification[1]), magnification[2]>>,
                           FluxOfNamed(fit_call.tracer, fit_call.name))

C19_Witness ==
    /\ FitFluxesBuilt
    /\ Len(fit_call.positions) = MaxPositions
    /\ HessianMagnification(fit_call.tracer, fit_call.name)[1] < 0
    /\ Get(Get(fit_res.fit).model_data)[1] = <<1, 2>>

\* the coordinates of the positions in the last plane of the tracer
TerminalCoordinates ==
    [i \in 1..Len(fit_call.positions) |->
        traced_coordinate(fit_call.tracer, fit_call.positions[i],
                          Len(fit_call.tracer.planes) - 1)]

\* a rational is the largest distance between two of the coordinates
IsMaxPairwiseSeparation(m, coordinates) ==
    /\ \E i, j \in 1..Len(coordinates) : m = Distance(coordinates[i], coordinates[j])
    /\ \A i, j \in 1..Len(coordinates) : RLe(Distance(coordinates[i], coordinates[j]), m)

\* C20: a source-plane fit holds the positions traced to the last plane of the tracer;
\* max_separation_of_source_plane_positions is the largest distance between two of these
\* coordinates (the furthest distances of collinear points at 0, 1, 3 are 3, 2, 3), and
\* max_separation_within_threshold(t) is true exactly when that distance is <= t.
C20_MaxSeparation ==
    (fit_call.cls = "FitPositionsSourceMaxSeparation" /\ ~ IsNone(fit_res.fit)) =>
        LET fit == Get(fit_res.fit)
            coordinates == TerminalCoordinates
        IN  /\ fit.source_plane_positions = Some(coordinates)
            /\ coordinates = <<<<R(0), R(0)>>, <<R(0), R(1)>>, <<R(0), R(3)>>>> =>
                  furthest_separations_of_source_plane_positions(fit) = <<R(3), R(2), R(3)>>
            /\ fit_query.method = "max_separation_of_source_plane_positions" =>
                  IsMaxPairwiseSeparation(Get(fit_query.separation), coordinates)
            /\ fit_query.method = "max_separation_within_threshold" =>
                  (Get(fit_query.within) <=>
                      \A i, j \in 1..Len(coordinates) :
                          RLe(Distance(coordinates[i], coordinates[j]), fit_query.threshold))

C20_Witness ==
    /\ fit_call.cls = "FitPositionsSourceMaxSeparation"
    /\ fit_call.positions = <<<<R(0), R(0)>>, <<R(0), R(1)>>, <<R(0), R(3)>>>>
    /\ fit_call.tracer.planes[1].kappa = 3
    /\ fit_query.method = "max_separation_within_threshold"
    /\ fit_query.threshold = R(6)
    /\ fit_query.within = Some(TRUE)

(***************************************************************************)
(* C21: construction of a tracer is atomic                                 *)
(***************************************************************************)
\* the call Tracer(...) of the driver has ended
tr_ended == pc \in {"q_tr_image", "q_tr_blurring", "end"}

\* a plane of ray_tracing.py holds a grid bundle of the shape of the input bundle and,
\* where it is asked for, a deflection field
PlaneFullyBuilt(plane, with_deflections) ==
    /\ SameShape(plane.coordinates_collection, args.image_plane_grids)
    /\ with_deflections => ~ IsNone(plane.deflections)

\* C21: a constructor call either returns a tracer whose planes are all fully built (the
\* grid and, for every plane but the last, the deflection field) or raises; while it runs
\* and after it has raised the caller holds no tracer, so it never sees a plane list that
\* is only partly filled.
C21_AtomicConstruction ==
    /\ ~ mt_ended => IsNone(caller.mt)
    /\ mt_ended => ((mt_exc = "none") <=> ~ IsNone(caller.mt))
    /\ ~ IsNone(caller.mt) =>
          LET tracer == Get(caller.mt)
              n == Len(tracer.planes_redshift_order)
          IN  /\ n >= 1
              /\ Len(tracer.planes) = n
              /\ \A k \in 1..n : PlaneFullyBuilt(tracer.planes[k], k < n)
    /\ ~ tr_ended => IsNone(caller.tr)
    /\ tr_ended => ((tr_exc = "none") <=> ~ IsNone(caller.tr))
    /\ ~ IsNone(caller.tr) =>
          LET tracer == Get(caller.tr)
          IN  /\ {"geometry", "image_plane", "source_plane"} \subseteq tracer.set
              /\ PlaneFullyBuilt(Get(tracer.image_plane), TRUE)
              /\ PlaneFullyBuilt(Get(tracer.source_plane), FALSE)

\* the MultiTracer call has raised and left nothing behind, the Tracer call on the same
\* galaxies has returned a complete tracer
C21_Witness ==
    /\ mt_exc = "TypeError"
    /\ IsNone(caller.mt)
    /\ ~ IsNone(caller.tr)
    /\ Len(args.galaxies) = MaxGalaxies

(***************************************************************************)
(* C27: the planes of a MultiTracer are built in ascending index order     *)
(***************************************************************************)
\* C27: in every pass of the loop over plane_index that computes a grid, the pass for
\* plane k starts when exactly the planes 0..k-1 have been constructed, each with its
\* deflection field; it reads the deflection fields of the planes 0..k-1 and of no other
\* plane, appends plane k behind them, and the deflection field of the final plane, which
\* is never computed, is read by no pass.
C27_AscendingPlaneOrder ==
    [][(pc = "mt_planes" /\ reads' # reads) =>
          LET k == Len(mt.planes)
              n == Len(mt.planes_redshift_order)
          IN  /\ Len(reads) = k
              /\ \A p \in 1..k : ~ IsNone(mt.planes[p].deflections)
              /\ reads' = Append(reads, {p \in 0..(n - 1) : p < k})
              /\ \A i \in 1..Len(reads') : (n - 1) \notin reads'[i]
              /\ mt'.planes = Append(mt.planes, mt'.planes[k + 1])
              /\ k = n - 1 => IsNone(mt'.planes[n].deflections)
      ]_vars

\* a tracer of three planes has been built: three passes, the last one reading planes 0, 1
C27_Witness ==
    /\ mt_built
    /\ reads = <<{}, {0}, {0, 1}>>
    /\ Len(mt.planes) = 3
    /\ IsNone(mt.planes[3].deflections)

(***************************************************************************)
(* C23: caching of the angular diameter distances                          *)
(***************************************************************************)
\* the planes a lookup names, negative indices counted from the end of the redshift list
ResolvedKey(key) ==
    [k \in 1..Len(key) |-> IF key[k] < 0 THEN Len(geo_call.redshifts) + key[k] ELSE key[k]]

\* how often the cosmology has been asked for the distance of a lookup
TimesConsulted(key) ==
    Cardinality({a \in 1..Len(geo_hist.log) : ResolvedKey(geo_hist.log[a]) = ResolvedKey(key)})

\* C23: over the constructor and the requests made on a geometry, the cosmology is asked
\* at most once for the distance of the observer to any one plane and at most once for
\* the distance between any one pair of planes, and a request that is repeated returns
\* the value of the first time.
C23_DistancesCached ==
    /\ \A a \in 1..Len(geo_hist.log) : TimesConsulted(geo_hist.log[a]) <= 1
    /\ geo_hist.calls >= 2 => geo_res = geo_hist.first

\* what the code does: only ang_to_final_plane is kept; every request asks the cosmology
\* again for each of its distances, so after the constructor and c successful requests
\* with d distances each the cosmology has been asked 1 + c * d times.  The repeated
\* request still returns the value of the first time, the cosmology being a function of
\* the redshifts.
DistancesRecomputed ==
    (geo_call.method \in GeometryMethods /\ geo_res.exc = "none") =>
        /\ Len(geo_hist.log) =
              1 + geo_hist.calls * Len(DistanceLookups(Get(geo), geo_call.method,
                                                       geo_call.plane_i, geo_call.plane_j))
        /\ geo_res = geo_hist.first

(***************************************************************************)
(* C22: a tracer is immutable after construction                           *)
(***************************************************************************)
\* C22: every call of generate_image_of_galaxy_light_profiles, of the blurring image, of
\* the pixelization matrices, of trace_to_next_plane, of mapper and of regularization
\* leaves the objects as they were (the plane list, the galaxies, the grid bundle and the
\* deflection field of every plane, and the geometry), and a call that has been made
\* before ends as it ended the first time: same value, or same exception.
C22_ImmutableAfterConstruction ==
    [][(ob_call' # ob_call /\ ob_call.query.name # "none") =>
          /\ ob' = ob
          /\ ~ IsNone(ob_first[ob_call'.query]) =>
                /\ ob_call'.repeated
                /\ Get(ob_first[ob_call'.query]) =
                      [exc |-> ob_call'.exc, value |-> ob_call'.value]
      ]_vars

\* trace_to_next_plane of the first plane of a two-plane tracer has been called a second
\* time after the image and has returned a grid bundle
C22_Witness ==
    /\ ob_call.query = Query("trace_to_next_plane", 0)
    /\ ob_call.repeated
    /\ ob_call.exc = "none"
    /\ ob_call.n = MaxQueries
    /\ ~ IsNone(ob_first[Query("generate_image_of_galaxy_light_profiles", 0)])
    /\ Len(Get(ob.tracer).planes) = 2

(***************************************************************************)
(* C24: concurrent constructions share no mutable state                    *)
(***************************************************************************)
\* what a constructor call run alone on the objects the caller gave ends with
Alone(cls) ==
    LET given == cc_in.given
    IN  IF cls = "MultiTracer"
        THEN LET res == MultiTracer__init__(given.galaxies, given.image_plane_grids,
                                            given.cosmology)
             IN  [exc |-> res.exc, object |-> res.tracer]
        ELSE LET res == Plane__init__(given.galaxies, given.image_plane_grids, None, TRUE,
                                      given.cosmology)
             IN  [exc |-> res.exc, object |-> res.plane]

\* C24: however the statements of two constructor calls on the same galaxies, grid bundle
\* and cosmology interleave, the shared objects stay as the caller gave them, and each
\* call ends as it ends when run alone: with the same exception, or with an object equal
\* to the one built alone.
C24_NoSharedMutableState ==
    /\ Given(cc_in.galaxies, cc_in.image_plane_grids, cc_in.cosmology) = cc_in.given
    /\ \A c \in Callers :
          cc[c].pc = "done" =>
             /\ cc[c].exc = Alone(cc[c].cls).exc
             /\ cc[c].exc = "none" =>
                   IF cc[c].cls = "MultiTracer"
                   THEN \A f \in DOMAIN Get(Alone("MultiTracer").object) :
                           cc[c].self[f] = Get(Alone("MultiTracer").object)[f]
                   ELSE cc[c].self = Get(Alone("Plane").object)

\* the first call has returned a tracer of two planes while the second call, a
\* MultiTracer on the same objects, is in its loop with one plane built
C24_Witness ==
    /\ cc[1].cls = "MultiTracer"
    /\ cc[1].pc = "done"
    /\ cc[1].exc = "none"
    /\ Len(cc[1].self.planes) = 2
    /\ cc[2].cls = "MultiTracer"
    /\ cc[2].pc = "planes"
    /\ Len(cc[2].self.planes) = 1

(***************************************************************************)
(* C25: unit conversions there and back                                    *)
(***************************************************************************)
\* a conversion to the units the value already has returned the value as it was,
\* whether or not a factor was given
IdentityConversion ==
    un_call.on = "value" /\ un_call.same_units =>
       /\ un_call.exc = "none"
       /\ un.held = un_call.before

\* the units a conversion there changed
UnitsConverted == {which \in DOMAIN UnitPairs : ~IsNone(Get(un.there)[which])}

\* the value of the first forward conversion of a value made in arcsec, eps or angular
\* units, when one unit was converted: the product or quotient the kind of value names
ForwardConversion ==
    un.leg = "there" /\ Get(un.made).units = StartUnits /\ Cardinality(UnitsConverted) = 1 =>
       LET kind == Get(un.made).kind
           value == Get(un.made).value
           factor == Get(Get(un.there)[CHOOSE which \in UnitsConverted : TRUE])
           length == UnitsConverted = {"length"}
           luminosity == UnitsConverted = {"luminosity"}
           mass == UnitsConverted = {"mass"}
       IN  /\ kind = "Length" => Get(un.held).value = Round(RMul(value, factor))
           /\ kind = "MassOverLength2" /\ length =>
                 Get(un.held).value = Round(RDiv(value, Round(RMul(factor, factor))))
           /\ kind = "MassOverLength3" /\ length =>
                 Get(un.held).value
                    = Round(RDiv(value, Round(RMul(factor, RMul(factor, factor)))))
           /\ kind = "Luminosity" => Get(un.held).value = Round(RMul(value, factor))
           /\ kind = "MassOverLuminosity" /\ luminosity =>
                 Get(un.held).value = Round(RDiv(value, factor))
           /\ kind = "Mass" => Get(un.held).value = Round(RMul(value, factor))

\* the value was converted to other units and back to the units it was made in, with the
\* same factors both ways
ThereAndBack ==
    /\ un.leg = "back"
    /\ Get(un.held).units = Get(un.made).units
    /\ un.back = un.there

\* value a is value b up to the rounding of the given number of products and quotients,
\* each rounded to the nearest float
WithinRoundings(a, b, roundings) ==
    /\ RLe(RMul(b, R(((2 ^ MantissaBits) - 1) ^ roundings)),
           RMul(a, R(2 ^ (MantissaBits * roundings))))
    /\ RLe(RMul(a, R(2 ^ (MantissaBits * roundings))),
           RMul(b, R(((2 ^ MantissaBits) + 1) ^ roundings)))

HeldAsBefore ==
    IF un_call.on = "value" THEN un.held = un_call.before
    ELSE un_profile.held = un_call.before

\* C26: a call of convert on a value, or of new_profile_with_units_converted on a
\* profile, that asks for another unit without the factor of that unit, or for a unit
\* under a name that is no unit, raises UnitsException, and the value or profile it was
\* called on is as it was.
C26_UnitsException ==
    un_call.on # "none" /\ (un_call.lacks_factor \/ un_call.asks_unknown) =>
       /\ un_call.exc = "UnitsException"
       /\ HeldAsBefore

\* a profile taken to other units is asked back without the factor, and the call raised
C26_Witness ==
    /\ un_call.on = "profile"
    /\ un_profile.leg = "there"
    /\ un_call.lacks_factor
    /\ ~un_call.asks_unknown
    /\ un_call.exc = "UnitsException"

(***************************************************************************)
(* C28: the position check of fit                                          *)
(***************************************************************************)
\* what the last fit built or called
Built(event) == \E i \in DOMAIN an_log.events : an_log.events[i] = event

\* the positions of the last fit did not trace within the threshold
PositionsOutsideThreshold ==
    /\ an_log.fits > 0
    /\ ~IsNone(Get(an).positions)
    /\ ~RLe(Get(an_log.instance).separation, Get(an).position_threshold)

\* C28: a fit of either phase whose positions do not trace within position_threshold
\* raises RayTracingException with no image tracer and no fitter built and no likelihood
\* returned; a fit without positions makes no check and returns the likelihood.
C28_PositionsCheckedFirst ==
    /\ PositionsOutsideThreshold =>
          /\ an_log.last = Failed("RayTracingException")
          /\ ~Built("tracer")
          /\ ~Built("fitter")
    /\ an_log.fits > 0 /\ IsNone(Get(an).positions) =>
          /\ an_log.last = Returned(Get(an_log.instance).likelihood)
          /\ ~Built("positions_tracer")
          /\ ~Built("positions_fitter")

\* what does hold of both phases: the exception, and no likelihood
PositionsRejected ==
    PositionsOutsideThreshold => an_log.last = Failed("RayTracingException")

(***************************************************************************)
(* C29: the interval counters and plot_count                               *)
(***************************************************************************)
\* a counter of interval n >= 1 holds the number of calls made and returned true at the
\* last call exactly when that number is a multiple of n; a counter of interval -1 holds 0
\* and returned false
CounterCounts(counter, calls, value) ==
    IF counter.interval = -1
    THEN counter.count = 0 /\ ~value
    ELSE /\ counter.count = calls
         /\ calls > 0 => (value <=> calls % counter.interval = 0)

\* C29: each interval counter of an Analysis counts its calls and returns true at every
\* n-th, or stays at 0 and returns false when its interval is -1; with visualize_results
\* false no counter is called and plot_count stays 0; plot_count is the number of calls
\* of visualize.
C29_IntervalCounters ==
    ~IsNone(an) =>
       /\ CounterCounts(Get(an).should_log, an_log.log_calls, an_log.log_value)
       /\ CounterCounts(Get(an).should_visualise, an_log.visualise_calls,
                        an_log.visualise_value)
       /\ ~Get(an).visualize_results =>
             /\ an_log.log_calls = 0 /\ Get(an).should_log.count = 0
             /\ an_log.visualise_calls = 0 /\ Get(an).should_visualise.count = 0
             /\ Get(an).plot_count = 0
       /\ Get(an).plot_count = an_log.visualisations

\* four fits with visualisation every second call: two visualisations, while the log
\* counter, switched off, stayed at 0
C29_Witness ==
    /\ ~IsNone(an)
    /\ Get(an).visualize_results
    /\ Get(an).should_visualise = [count |-> 4, interval |-> 2]
    /\ Get(an).should_log = [count |-> 0, interval |-> -1]
    /\ an_log.log_calls = 4
    /\ Get(an).plot_count = 2

(***************************************************************************)
(* C30: hyper_run                                                          *)
(***************************************************************************)
\* the galaxies hyper_run works on, as they are and as they were given
HyperGalaxiesNow == hy.heap[Len(hy.heap)][HyperList(hy.cls)]
HyperGalaxiesGiven == hy.given[Len(hy.given)][HyperList(hy.cls)]

====
